---------------------------- MODULE Spec2Model ----------------------------
(***************************************************************************)
(* A model of qa4sm_reader's metadata engine (handlers.py): the dataset    *)
(* registry QA4SMDatasets, the variable-name parser and resolver           *)
(* QA4SMMetricVariable, and the name synthesis of QA4SMComparison.         *)
(*                                                                         *)
(* Strings are sequences of tokens.  A token is a maximal run of           *)
(* characters that holds neither "_" nor "-", or one of these two          *)
(* separators: "mse_corr" is <<"mse", "_", "corr">>.  Every literal of a   *)
(* template starts and ends with a separator and every integer field sits  *)
(* between two literals, so matching token by token is matching character  *)
(* by character.  Integers are written as decimal digit tokens.            *)
(***************************************************************************)
EXTENDS Integers, Sequences, FiniteSets, TLC

\* ------------------------------------------------------------- bounds
\* Largest internal dataset index (dc) an attribute map of the model uses.
MaxDc == 4
\* Largest number of datasets (reference included) in one attribute map.
MaxDatasets == 4

\* ------------------------------------------------- str(int) and int(str)
Digits == <<"0", "1", "2", "3", "4", "5", "6", "7", "8", "9">>

IsInt(tok) == \E i \in 1..Len(Digits) : Digits[i] = tok

\* int(tok) of a digit token
ToInt(tok) == (CHOOSE i \in 1..Len(Digits) : Digits[i] = tok) - 1

\* str(i): "{}".format(i) and "{:d}".format(i)
ToStr(i) == IF i < 0 THEN <<"-", Digits[1 - i]>> ELSE <<Digits[i + 1]>>

\* ------------------------------------------------------ format templates
Lit(tok) == [k |-> "lit", x |-> tok]
FStr(name) == [k |-> "s", x |-> name]
FInt(name) == [k |-> "d", x |-> name]
\* an anonymous {:d} field: its value goes to the positional results
Anon == ""

NoMatch == [ok |-> FALSE, named |-> <<>>, fixed |-> <<>>]

Bind(e, v, m) ==
    IF ~m.ok THEN NoMatch
    ELSE IF e.x = Anon
         THEN [ok |-> TRUE, named |-> m.named, fixed |-> <<v>> \o m.fixed]
         ELSE [ok |-> TRUE, named |-> (e.x :> v) @@ m.named, fixed |-> m.fixed]

\* str.lower() of a token, for the spellings the names of the model use
Lower(tok) ==
    CASE tok \in {"BETWEEN", "Between"} -> "between"
      [] tok \in {"AND", "And"} -> "and"
      [] tok \in {"CI", "Ci"} -> "ci"
      [] OTHER -> tok

RECURSIVE Match(_, _)
RECURSIVE MatchStr(_, _, _, _)

\* parse(template, s): the whole of s against the template, the text of the
\* template matching whatever the case (case_sensitive=False).  An untyped
\* field is the regular expression (.+?): the shortest non-empty run that
\* lets the rest match.  A :d field is an optionally signed integer.
Match(t, s) ==
    IF t = <<>>
    THEN IF s = <<>> THEN [ok |-> TRUE, named |-> <<>>, fixed |-> <<>>]
                     ELSE NoMatch
    ELSE LET e == Head(t)
             rest == Tail(t)
         IN  CASE e.k = "lit" ->
                    IF s # <<>> /\ Lower(Head(s)) = Lower(e.x)
                    THEN Match(rest, Tail(s))
                    ELSE NoMatch
               [] e.k = "d" ->
                    IF s # <<>> /\ IsInt(s[1])
                    THEN Bind(e, ToInt(s[1]), Match(rest, Tail(s)))
                    ELSE IF Len(s) >= 2 /\ s[1] = "-" /\ IsInt(s[2])
                         THEN Bind(e, 0 - ToInt(s[2]),
                                   Match(rest, SubSeq(s, 3, Len(s))))
                         ELSE NoMatch
               [] e.k = "s" -> MatchStr(e, rest, s, 1)

MatchStr(e, rest, s, n) ==
    IF n > Len(s) THEN NoMatch
    ELSE LET m == Match(rest, SubSeq(s, n + 1, Len(s)))
         IN  IF m.ok THEN Bind(e, SubSeq(s, 1, n), m)
             ELSE MatchStr(e, rest, s, n + 1)

RECURSIVE Format(_, _, _)
\* template.format(*fixed, **named)
Format(t, named, fixed) ==
    IF t = <<>> THEN <<>>
    ELSE LET e == Head(t)
         IN  CASE e.k = "lit" -> <<e.x>> \o Format(Tail(t), named, fixed)
               [] e.k = "s" /\ e.x # Anon ->
                    named[e.x] \o Format(Tail(t), named, fixed)
               [] e.k = "d" /\ e.x # Anon ->
                    ToStr(named[e.x]) \o Format(Tail(t), named, fixed)
               [] e.k = "s" /\ e.x = Anon ->
                    Head(fixed) \o Format(Tail(t), named, Tail(fixed))
               [] e.k = "d" /\ e.x = Anon ->
                    ToStr(Head(fixed)) \o Format(Tail(t), named, Tail(fixed))

\* ---------------------------------------------------------- globals.py
\* Key templates of the attribute map.  An attribute key is written as its
\* stem followed by the digits of its index.
RefDsAttr == <<"val_ref">>
DsShortNameAttr == <<Lit("val_dc_dataset"), FInt(Anon)>>
DsPrettyNameAttr == <<Lit("val_dc_dataset_pretty_name"), FInt(Anon)>>
VersionShortNameAttr == <<Lit("val_dc_version"), FInt(Anon)>>
VersionPrettyNameAttr == <<Lit("val_dc_version_pretty_name"), FInt(Anon)>>

\* Metric groups, in the order of the table: Common, Pairwise,
\* TripleCollocation.
MetrGroups == <<0, 2, 3>>

W(a) == <<a>>
U(a, b) == <<a, "_", b>>

\* metric_groups[g]: the known metrics of a group
MetricGroups(g) ==
    CASE g = 0 -> {U("n", "obs")}
      [] g = 2 -> {W("R"), U("p", "R"), W("rho"), U("p", "rho"), W("RMSD"),
                   W("BIAS"), W("urmsd"), W("mse"), U("mse", "corr"),
                   U("mse", "bias"), U("mse", "var"), W("RSS"), W("tau"),
                   U("p", "tau")}
      [] g = 3 -> {W("snr"), U("err", "std"), W("beta")}

\* "_between_"
Between == <<Lit("_"), Lit("between"), Lit("_")>>
\* "_and_"
And == <<Lit("_"), Lit("and"), Lit("_")>>
\* "_ci_{bound}"
CIBound == <<Lit("_"), Lit("ci"), Lit("_"), FStr("bound")>>
\* "{id:d}-{ds}"
DsRef(id, ds) == <<FInt(id), Lit("-"), FStr(ds)>>

\* var_name_metric_sep[g]
VarNameMetricSep(g) ==
    CASE g = 0 -> <<FStr("metric")>>
      [] g = 2 -> <<FStr("metric")>> \o Between
      [] g = 3 -> <<FStr("metric"), Lit("_")>> \o DsRef("mds_id", "mds") \o Between

\* var_name_CI[g]
VarNameCI(g) ==
    CASE g = 0 -> <<FStr("metric")>> \o CIBound
      [] g = 2 -> <<FStr("metric")>> \o CIBound \o Between
      [] g = 3 -> <<FStr("metric")>> \o CIBound \o <<Lit("_")>>
                  \o DsRef("mds_id", "mds") \o Between

\* var_name_ds_sep[g], the empty template standing for None
VarNameDsSep(g) ==
    CASE g = 0 -> <<>>
      [] g = 2 -> DsRef("ref_id", "ref_ds") \o And \o DsRef("sat_id0", "sat_ds0")
      [] g = 3 -> DsRef("ref_id", "ref_ds") \o And \o DsRef("sat_id0", "sat_ds0")
                  \o And \o DsRef("sat_id1", "sat_ds1")

\* ------------------------------------------------------------- results
\* What a call gives: the value it returns, or the exception it raises.
Ok(v) == [ok |-> TRUE, v |-> v]
Err(e) == [ok |-> FALSE, err |-> e]

\* the statements K that follow a call r: they run on the value returned,
\* and an exception raised by the call leaves the caller
Then(r, K(_)) == IF r.ok THEN K(r.v) ELSE r

\* ---------------------------------------------------- attribute maps
\* The datasets a validation can hold, by catalogue position.
Catalogue ==
    << [short |-> <<"ERA5", "_", "LAND">>, pretty |-> <<"ERA5", "-", "Land">>,
        vshort |-> <<"ERA5", "_", "LAND", "_", "TEST">>, vpretty |-> <<"test">>],
       [short |-> <<"C3S">>, pretty |-> <<"C3S">>,
        vshort |-> <<"C3S", "_", "V201812">>, vpretty |-> <<"v201812">>],
       [short |-> <<"ASCAT">>, pretty |-> <<"H", "-", "SAF ASCAT SSM CDR">>,
        vshort |-> <<"ASCAT", "_", "H113">>, vpretty |-> <<"H113">>],
       [short |-> <<"SMOS">>, pretty |-> <<"SMOS IC">>,
        vshort |-> <<"SMOS", "_", "105", "_", "ASC">>, vpretty |-> <<"V.105">>],
       [short |-> <<"ERA5">>, pretty |-> <<"ERA5">>,
        vshort |-> <<"ERA5", "_", "20190613">>, vpretty |-> <<"v20190613">>],
       [short |-> <<"ISMN">>, pretty |-> <<"ISMN">>,
        vshort |-> <<"ISMN", "_", "V20191211">>, vpretty |-> <<"20191211">>] >>

\* twin: the validation holds the dataset of index 1 a second time, at 2.
Entry(dc, twin) ==
    IF twin /\ dc = 2 THEN Catalogue[2]
    ELSE Catalogue[(dc % Len(Catalogue)) + 1]

Key(stem, dc) == <<stem>> \o ToStr(dc)

RECURSIVE DatasetKeys(_)
\* the attribute keys of the datasets, dataset after dataset
DatasetKeys(dcs) ==
    IF dcs = <<>> THEN <<>>
    ELSE << Key("val_dc_dataset", Head(dcs)),
            Key("val_dc_dataset_pretty_name", Head(dcs)),
            Key("val_dc_version", Head(dcs)),
            Key("val_dc_version_pretty_name", Head(dcs)) >>
         \o DatasetKeys(Tail(dcs))

\* The global attributes of a result file: keys in file order, and values.
AttributeMap(dcs, r, twin, withRef) ==
    LET keys == <<<<"val_interval_from">>>> \o DatasetKeys(dcs)
                \o (IF withRef THEN <<RefDsAttr>> ELSE <<>>)
                \o <<<<"val_scaling_ref">>>>
        D == {dcs[i] : i \in 1..Len(dcs)}
    IN  [ keys |-> keys,
          val |-> [k \in {keys[i] : i \in 1..Len(keys)} |->
                     IF k = RefDsAttr THEN Key("val_dc_dataset", r)
                     ELSE IF k = <<"val_interval_from">> THEN <<"1978", "-", "11">>
                     ELSE IF k = <<"val_scaling_ref">>
                          THEN Key("val_dc_dataset", r)
                     ELSE LET dc == ToInt(k[2])
                              e == Entry(dc, twin)
                          IN  CASE k[1] = "val_dc_dataset" -> e.short
                                [] k[1] = "val_dc_dataset_pretty_name" -> e.pretty
                                [] k[1] = "val_dc_version" -> e.vshort
                                [] k[1] = "val_dc_version_pretty_name" -> e.vpretty ] ]

RECURSIVE Ascending(_)
Ascending(S) ==
    IF S = {} THEN <<>>
    ELSE LET m == CHOOSE a \in S : \A b \in S : a <= b
         IN  <<m>> \o Ascending(S \ {m})

Reverse(s) == [i \in 1..Len(s) |-> s[Len(s) + 1 - i]]

DatasetSets == {D \in SUBSET (0..MaxDc) : D # {} /\ Cardinality(D) <= MaxDatasets}

Orders(D) == {Ascending(D), Reverse(Ascending(D))}

\* whether the datasets of indices 1 and 2 can be twins
Twins(D) == IF {1, 2} \subseteq D THEN BOOLEAN ELSE {FALSE}

\* Well-formed maps: every dataset has its four name keys, and the
\* reference attribute names one of the datasets.
WellFormedMetas ==
    UNION { { AttributeMap(dcs, r, twin, TRUE) :
                dcs \in Orders(D), r \in D, twin \in Twins(D) } : D \in DatasetSets }

\* Maps of files that lack the attribute naming the reference.
NoRefMetas ==
    UNION { { AttributeMap(Ascending(D), r, FALSE, FALSE) : r \in D } :
            D \in DatasetSets }

Metas == WellFormedMetas \cup NoRefMetas

\* The maps whose keys come in ascending order of index.
AscendingMetas ==
    UNION { { AttributeMap(Ascending(D), r, twin, TRUE) :
                r \in D, twin \in Twins(D) } : D \in DatasetSets }
    \cup NoRefMetas

\* The canonical file of the tests: reference ERA5 at index 4, C3S, ASCAT
\* and SMOS at 1, 2 and 3.
ScenarioMeta == AttributeMap(<<1, 2, 3, 4>>, 4, FALSE, TRUE)

VARIABLES
    meta,     \* the global attributes handed to the objects (self.meta, self.attrs)
    varname,  \* the variable name handed to QA4SMMetricVariable (self.varname)
    var,      \* the QA4SMMetricVariable constructed, its attrs being meta
    metric_name,     \* the name handed to QA4SMMetric (name)
    variables_list,  \* the variables handed to QA4SMMetric (variables_list)
    qmetric,  \* the QA4SMMetric constructed
    cargs,    \* the arguments handed to QA4SMComparison (paths, extent, get_intersection)
    cmp,      \* the QA4SMComparison constructed
    plotter,  \* the QA4SMPlotter constructed: its out_dir
    call      \* the last operation called, its arguments and what it returned

vars == <<meta, varname, metric_name, variables_list, var, qmetric, cargs, cmp, plotter,
          call>>

NoCall == [op |-> "none"]

\* No QA4SMComparison asked for, none constructed.
NoArgs == [given |-> FALSE]
NoComparison == [constructed |-> FALSE]
\* No QA4SMPlotter constructed.
NoPlotter == [constructed |-> FALSE]

\* ------------------------------------------------------- QA4SMDatasets
\* self.meta.get(key, ''): a missing key read as an empty value
LookupDefaulting(key) ==
    IF key \in DOMAIN meta.val THEN Ok(meta.val[key]) ELSE Ok(<<>>)

\* self.meta[key]
Lookup(key) ==
    IF key \in DOMAIN meta.val THEN Ok(meta.val[key]) ELSE Err("KeyError")

\* parse(...)[0]: None[0] is a TypeError
FirstField(parsed) ==
    IF parsed.ok THEN Ok(parsed.fixed[1]) ELSE Err("TypeError")

\* _ref_dc.  Without the reference attribute the handler of the KeyError
\* calls warn, which is the module warnings: a TypeError leaves the handler.
\* A value that is no short-name key makes parse return None.
RefDc ==
    IF RefDsAttr \notin DOMAIN meta.val THEN Err("TypeError")
    ELSE FirstField(Match(DsShortNameAttr, meta.val[RefDsAttr]))

\* the test of offset turned round
OffsetTestInverted ==
    Then(RefDc, LAMBDA dc : Ok(IF dc = 0 THEN -1 ELSE 0))

\* offset
Offset ==
    Then(RefDc, LAMBDA dc : Ok(IF dc # 0 THEN -1 ELSE 0))

\* _ref_id, and the property ref_id
RefId ==
    Then(RefDc, LAMBDA dc :
    Then(Offset, LAMBDA offset : Ok(dc - offset)))

Contains(s, v) == \E i \in 1..Len(s) : s[i] = v

\* the body of the loop of _dcs without the test against the reference
DcsAddKeepingRef(parsed, acc) ==
    IF parsed.ok /\ Len(parsed.fixed) = 1
    THEN Then(RefDc, LAMBDA ref :
           Ok(IF ~Contains(acc, parsed.fixed[1])
              THEN Append(acc, parsed.fixed[1])
              ELSE acc))
    ELSE Ok(acc)

\* the body of the loop of _dcs for one key, parsed: dcs.keys() after it,
\* acc being dcs.keys() before it
DcsAdd(parsed, acc) ==
    IF parsed.ok /\ Len(parsed.fixed) = 1
    THEN Then(RefDc, LAMBDA ref :
           Ok(IF parsed.fixed[1] # ref /\ ~Contains(acc, parsed.fixed[1])
              THEN Append(acc, parsed.fixed[1])
              ELSE acc))
    ELSE Ok(acc)

RECURSIVE DcsFrom(_, _)
\* the loop of _dcs over the keys left
DcsFrom(keys, acc) ==
    IF keys = <<>> THEN Ok(acc)
    ELSE Then(DcsAdd(Match(DsShortNameAttr, Head(keys)), acc), LAMBDA next :
           DcsFrom(Tail(keys), next))

\* _dcs: the keys of the dictionary it returns, in their order
Dcs == DcsFrom(meta.keys, <<>>)

\* others_id adding the offset instead of taking it off
OthersIdAddingOffset ==
    Then(Dcs, LAMBDA dcs :
      IF dcs = <<>> THEN Ok(<<>>)
      ELSE Then(Offset, LAMBDA offset :
             Ok([i \in 1..Len(dcs) |-> dcs[i] + offset])))

\* others_id
OthersId ==
    Then(Dcs, LAMBDA dcs :
      IF dcs = <<>> THEN Ok(<<>>)
      ELSE Then(Offset, LAMBDA offset :
             Ok([i \in 1..Len(dcs) |-> dcs[i] - offset])))

\* _id2dc taking the offset off instead of adding it
Id2DcTakingOffset(id) ==
    Then(Offset, LAMBDA offset : Ok(id - offset))

\* _id2dc
Id2Dc(id) ==
    Then(Offset, LAMBDA offset : Ok(id + offset))

\* n_datasets forgetting the reference
NDatasetsOthersOnly ==
    Then(Dcs, LAMBDA dcs : Ok(Len(dcs)))

\* n_datasets
NDatasets ==
    Then(Dcs, LAMBDA dcs : Ok(Len(dcs) + 1))

\* _dc_names
DcNames(dc) ==
    Then(Lookup(Format(DsShortNameAttr, <<>>, <<dc>>)), LAMBDA sn :
    Then(Lookup(Format(DsPrettyNameAttr, <<>>, <<dc>>)), LAMBDA pn :
    Then(Lookup(Format(VersionShortNameAttr, <<>>, <<dc>>)), LAMBDA sv :
    Then(Lookup(Format(VersionPrettyNameAttr, <<>>, <<dc>>)), LAMBDA pv :
      Ok([ short_name |-> sn,
           pretty_name |-> pn,
           short_version |-> sv,
           pretty_version |-> pv,
           pretty_title |-> pn \o <<" (">> \o pv \o <<")">> ])))))

\* ref
Ref ==
    Then(RefDc, LAMBDA dc : DcNames(dc))

RECURSIVE OthersFrom(_)
\* the loop of others over the dcs left
OthersFrom(dcs) ==
    IF dcs = <<>> THEN Ok(<<>>)
    ELSE Then(DcNames(Head(dcs)), LAMBDA n :
         Then(OthersFrom(Tail(dcs)), LAMBDA rest : Ok(<<n>> \o rest)))

\* others
Others ==
    Then(Dcs, LAMBDA dcs : OthersFrom(dcs))

\* The element argument of dataset_metadata: None, a string, or a list.
ElemNone == [kind |-> "none"]
ElemStr(e) == [kind |-> "str", v |-> e]
ElemList(l) == [kind |-> "list", v |-> l]

\* dataset_metadata(id, element): the pair (id, meta)
DatasetMetadata(id, element) ==
    Then(Id2Dc(id), LAMBDA dc :
    Then(DcNames(dc), LAMBDA names :
      CASE element.kind = "none" -> Ok([id |-> id, meta |-> names])
        [] element.kind = "str" ->
             IF element.v \notin DOMAIN names THEN Err("ValueError")
             ELSE Ok([id |-> id, meta |-> names[element.v]])
        [] element.kind = "list" ->
             IF \E i \in 1..Len(element.v) : element.v[i] \notin DOMAIN names
             THEN Err("KeyError")
             ELSE Ok([id |-> id,
                      meta |-> [e \in {element.v[i] : i \in 1..Len(element.v)}
                                  |-> names[e]]])))

\* ----------------------------------------------------------- actions
Call(op, arg, ret) ==
    /\ call' = [op |-> op, arg |-> arg, ret |-> ret]
    /\ UNCHANGED <<meta, varname, metric_name, variables_list, var, qmetric, cargs, cmp, plotter>>

\* ids a caller may ask for: every id of a registry, and ids of none
Ids == 0..(MaxDc + 2)

Elements ==
    {ElemNone, ElemStr("short_name"), ElemStr("pretty_title"), ElemStr("all"),
     ElemList(<<"short_name", "pretty_version">>), ElemList(<<"name">>)}

GetOffset == Call("offset", <<>>, Offset)
GetRefId == Call("ref_id", <<>>, RefId)
GetOthersId == Call("others_id", <<>>, OthersId)
GetNDatasets == Call("n_datasets", <<>>, NDatasets)
GetRef == Call("ref", <<>>, Ref)
GetOthers == Call("others", <<>>, Others)
GetDatasetMetadata ==
    \E id \in Ids, element \in Elements :
        Call("dataset_metadata", [id |-> id, element |-> element],
             DatasetMetadata(id, element))

\* ------------------------------------------------- QA4SMMetricVariable
\* The group of a name that is no metric variable (g is None).
NoGroup == -1
\* (None, None, None)
NoParse == [metric |-> <<>>, g |-> NoGroup, parts |-> <<>>]

\* the pattern without the template of the datasets
PatternMetricOnly(g) == VarNameMetricSep(g)

\* '{}{}'.format(var_name_metric_sep[g], template)
Pattern(g) == VarNameMetricSep(g) \o VarNameDsSep(g)
\* '{}{}'.format(var_name_CI[g], template)
PatternCI(g) == VarNameCI(g) \o VarNameDsSep(g)

\* the test without the membership of the metric
AcceptedAnyMetric(parts, g) == parts.ok

\* parts is not None and parts['metric'] in metric_groups[g]
Accepted(parts, g) == parts.ok /\ parts.named["metric"] \in MetricGroups(g)

RECURSIVE ParseFrom(_, _)
\* the loop of _parse_varname over the groups left
ParseFrom(groups, name) ==
    IF groups = <<>> THEN NoParse
    ELSE LET g == Head(groups)
             parts == Match(Pattern(g), name)
         IN  IF Accepted(parts, g)
             THEN [metric |-> parts.named["metric"], g |-> g, parts |-> parts.named]
             ELSE LET ci == Match(PatternCI(g), name)
                  IN  IF Accepted(ci, g)
                      THEN [metric |-> ci.named["metric"], g |-> g, parts |-> ci.named]
                      ELSE ParseFrom(Tail(groups), name)

RECURSIVE ParsePrimaryFrom(_, _)
\* the loop without its confidence-interval attempt
ParsePrimaryFrom(groups, name) ==
    IF groups = <<>> THEN NoParse
    ELSE LET g == Head(groups)
             parts == Match(Pattern(g), name)
         IN  IF Accepted(parts, g)
             THEN [metric |-> parts.named["metric"], g |-> g, parts |-> parts.named]
             ELSE ParsePrimaryFrom(Tail(groups), name)

\* _parse_varname never trying a confidence-interval template
ParseVarnamePrimaryOnly(name) == ParsePrimaryFrom(MetrGroups, name)

\* _parse_varname returning the no-match triple inside the loop, after the
\* first group
ParseVarnameFirstGroupOnly(name) == ParseFrom(<<MetrGroups[1]>>, name)

\* _parse_varname
ParseVarname(name) == ParseFrom(MetrGroups, name)

\* None, and an attribute the constructor has not set
None == [none |-> TRUE]
Unset == [unset |-> TRUE]
NoVar == [constructed |-> FALSE]
\* the attribute bound not set: no parsed bound is the empty string
NoBound == <<>>
\* a call returning None where it otherwise returns a number
OkNone == [ok |-> TRUE, none |-> TRUE]

\* dataset_metadata(id)
Dm(id) == DatasetMetadata(id, ElemNone)

\* get_varmeta resolving the metric dataset of a pairwise variable from the
\* reference's id
GetVarmetaMdsFromRef(g, parts) ==
    IF g = 0
    THEN Then(RefId, LAMBDA id :
         Then(Dm(id), LAMBDA ref :
           Ok([ref_ds |-> ref, mds |-> None, dss |-> None, other_dss |-> Unset])))
    ELSE IF g = NoGroup
    THEN Err("TypeError")
    ELSE Then(Dm(parts["ref_id"]), LAMBDA ref :
           Ok([ref_ds |-> ref, mds |-> ref, dss |-> None, other_dss |-> Unset]))

\* the TC branch never turning to the alternate candidate
TcVarmetaNoAlternate(ref, sat0, mds, sat1) ==
    Ok([ref_ds |-> ref, mds |-> mds, dss |-> sat1, other_dss |-> <<sat0, sat1>>])

\* the TC branch comparing the names of the datasets without their ids
TcVarmetaComparingNames(ref, sat0, mds, sat1) ==
    Ok([ref_ds |-> ref, mds |-> mds,
        dss |-> IF sat1.meta = mds.meta THEN sat0 ELSE sat1,
        other_dss |-> <<sat0, sat1>>])

\* the datasets of a TC variable: mds, dss and the other_dss it stores
TcVarmeta(ref, sat0, mds, sat1) ==
    Ok([ref_ds |-> ref, mds |-> mds,
        dss |-> IF sat1 = mds THEN sat0 ELSE sat1,
        other_dss |-> <<sat0, sat1>>])

\* get_varmeta taking a name of no group for a Common one
GetVarmetaNoneAsCommon(g, parts) ==
    IF g = 0 \/ g = NoGroup
    THEN Then(RefId, LAMBDA id :
         Then(Dm(id), LAMBDA ref :
           Ok([ref_ds |-> ref, mds |-> None, dss |-> None, other_dss |-> Unset])))
    ELSE Then(Dm(parts["ref_id"]), LAMBDA ref :
         Then(Dm(parts["sat_id0"]), LAMBDA sat0 :
           IF g # 3
           THEN Ok([ref_ds |-> ref, mds |-> sat0, dss |-> None,
                    other_dss |-> Unset])
           ELSE Then(Dm(parts["mds_id"]), LAMBDA mds :
                Then(Dm(parts["sat_id1"]), LAMBDA sat1 :
                  TcVarmeta(ref, sat0, mds, sat1)))))

\* get_varmeta of a variable of group g with the given parts: the triple
\* (ref_ds, mds, dss), and the other_dss it stores for a TC variable.
GetVarmeta(g, parts) ==
    IF g = 0
    THEN Then(RefId, LAMBDA id :
         Then(Dm(id), LAMBDA ref :
           Ok([ref_ds |-> ref, mds |-> None, dss |-> None, other_dss |-> Unset])))
    ELSE IF g = NoGroup
    THEN Err("TypeError")   \* None['ref_id']
    ELSE Then(Dm(parts["ref_id"]), LAMBDA ref :
         Then(Dm(parts["sat_id0"]), LAMBDA sat0 :
           IF g # 3
           THEN Ok([ref_ds |-> ref, mds |-> sat0, dss |-> None,
                    other_dss |-> Unset])
           ELSE Then(Dm(parts["mds_id"]), LAMBDA mds :
                Then(Dm(parts["sat_id1"]), LAMBDA sat1 :
                  TcVarmeta(ref, sat0, mds, sat1)))))

\* "bound" in parts.keys()
HasBound(parts) == "bound" \in DOMAIN parts

\* the object after self._parse_varname(), p being what it returned
AfterParse(name, values, p) ==
    [ constructed |-> TRUE, varname |-> name, values |-> values,
      metric |-> p.metric, g |-> p.g, parts |-> p.parts,
      Metric |-> Unset, ref_ds |-> Unset, metric_ds |-> Unset,
      other_ds |-> Unset, other_dss |-> Unset, bound |-> NoBound ]

\* the rest of the constructor, p being what _parse_varname returned
Constructed(name, values, p) ==
    IF p.g = NoGroup \/ p.g = 0 THEN Ok(AfterParse(name, values, p))
    ELSE Then(GetVarmeta(p.g, p.parts), LAMBDA vm :
           Ok([AfterParse(name, values, p) EXCEPT
                 !.Metric = p.metric,
                 !.ref_ds = vm.ref_ds,
                 !.metric_ds = vm.mds,
                 !.other_ds = vm.dss,
                 !.other_dss = vm.other_dss,
                 !.bound = IF HasBound(p.parts) THEN p.parts["bound"]
                           ELSE NoBound]))

\* QA4SMMetricVariable(varname, global_attrs, values): the object, or the
\* error that leaves the constructor
NewVariable(name, values) == Constructed(name, values, ParseVarname(name))

\* ------------------------------------------------------ variable names
\* Names of variables that are no metric.
NonMetricNames ==
    {<<"lat">>, <<"lon">>, <<"time">>, <<"gpi">>, <<"idx">>,
     <<"_", "row", "_", "size">>}

\* Metric tokens names are written with: one or two of each group, and
\* one of no group.
SampleMetrics ==
    {U("n", "obs"), W("R"), U("mse", "corr"), W("snr"), U("err", "std"), W("xyz")}

Bounds == {<<"upper">>, <<"lower">>}

ShortNameOf(id) == Catalogue[(id % Len(Catalogue)) + 1].short

\* what a name is written from: metric, bound, and the ids with the short
\* names of the datasets
NameValues(metric, bound, mds, ref, sat0, sat1) ==
    [ metric |-> metric, bound |-> bound,
      mds_id |-> mds, mds |-> ShortNameOf(mds),
      ref_id |-> ref, ref_ds |-> ShortNameOf(ref),
      sat_id0 |-> sat0, sat_ds0 |-> ShortNameOf(sat0),
      sat_id1 |-> sat1, sat_ds1 |-> ShortNameOf(sat1) ]

\* a name written from a group's template, primary or confidence-interval
Synthesize(g, ci, values) ==
    Format(IF ci THEN PatternCI(g) ELSE Pattern(g), values, <<>>)

SynthesizedNames ==
    { Synthesize(g, ci, NameValues(m, b, mds, ref, sat0, sat1)) :
        g \in {0, 2, 3}, ci \in BOOLEAN, m \in SampleMetrics, b \in Bounds,
        mds \in 1..2, ref \in {0, MaxDc}, sat0 \in 1..2, sat1 \in 1..2 }

\* Names no template writes.
OddNames ==
    { <<"R", "_", "between", "_">>,
      <<"R", "_", "between", "_", "0", "-", "ERA5", "_", "and", "_", "x", "-", "C3S">>,
      <<"R", "_", "between", "_", "-", "1", "-", "ERA5", "_", "and", "_", "1", "-", "C3S">>,
      <<"R", "_", "between", "_", "0", "-", "ERA5", "_", "and", "_", "1", "-", "C3S",
        "_", "between", "_", "0", "-", "ERA5", "_", "and", "_", "2", "-", "ASCAT">>,
      <<"R", "_", "ci", "_", "between", "_", "0", "-", "ERA5", "_", "and", "_", "1", "-", "C3S">>,
      <<"n", "_", "obs", "_", "ci", "_", "upper", "_", "ci", "_", "lower">>,
      <<"R", "_", "BETWEEN", "_", "0", "-", "ERA5", "_", "And", "_", "1", "-", "C3S">>,
      <<"snr", "_", "1", "-", "C3S">> }

VarNames == NonMetricNames \cup SynthesizedNames \cup OddNames

\* The names of the variables of the file the attribute map comes from:
\* written with the ids of its datasets and their short names.
FileOffset ==
    IF RefDsAttr \in DOMAIN meta.val /\ meta.val[RefDsAttr] # Key("val_dc_dataset", 0)
    THEN -1 ELSE 0
FileDcs ==
    {ToInt(k[2]) : k \in {q \in DOMAIN meta.val : q[1] = "val_dc_dataset"}}
FileRefDc ==
    IF RefDsAttr \in DOMAIN meta.val THEN ToInt(meta.val[RefDsAttr][2])
    ELSE CHOOSE dc \in FileDcs : \A o \in FileDcs : dc <= o
FileShortName(dc) == meta.val[Key("val_dc_dataset", dc)]

FileValues(metric, mds, sat0, sat1) ==
    [ metric |-> metric, bound |-> <<"upper">>,
      mds_id |-> mds - FileOffset, mds |-> FileShortName(mds),
      ref_id |-> FileRefDc - FileOffset, ref_ds |-> FileShortName(FileRefDc),
      sat_id0 |-> sat0 - FileOffset, sat_ds0 |-> FileShortName(sat0),
      sat_id1 |-> sat1 - FileOffset, sat_ds1 |-> FileShortName(sat1) ]

FileNames ==
    LET others == FileDcs \ {FileRefDc}
    IN  { Synthesize(0, ci, FileValues(U("n", "obs"), FileRefDc, FileRefDc, FileRefDc)) :
            ci \in BOOLEAN }
        \cup { Synthesize(2, ci, FileValues(m, o, o, o)) :
                 ci \in BOOLEAN, o \in others, m \in {W("R")} }
        \cup { Synthesize(3, ci, FileValues(W("snr"), mds, sat0, sat1)) :
                 ci \in BOOLEAN, mds \in others, sat0 \in others, sat1 \in others }

\* Pairwise names that come from another file: the id in their reference
\* slot is the id of one of this file's other datasets.
ForeignNames ==
    LET others == FileDcs \ {FileRefDc}
    IN  { Synthesize(2, FALSE,
                     [FileValues(W("R"), o, o, o) EXCEPT
                        !.ref_id = r - FileOffset,
                        !.ref_ds = FileShortName(r)]) :
            o \in others, r \in others }

\* The values handles a caller passes: None, or a frame.
Values == {"None", "frame"}

\* ----------------------------------------------------------- actions
\* the state after the constructor was called with values and gave new
Constructing(values, new) ==
    /\ var' = IF new.ok THEN new.v ELSE var
    /\ call' = [op |-> "__init__", arg |-> [varname |-> varname, values |-> values],
                ret |-> new]
    /\ UNCHANGED <<meta, varname, metric_name, variables_list, qmetric, cargs, cmp, plotter>>

\* QA4SMMetricVariable(varname, meta, values)
Construct ==
    \E values \in Values : Constructing(values, NewVariable(varname, values))

\* get_varmeta dropping the values handle of the variable
GettingVarmetaClearingValues(vm) ==
    /\ var' = [var EXCEPT !.values = "None"]
    /\ call' = [op |-> "get_varmeta", arg |-> <<>>,
                ret |-> IF vm.ok
                        THEN Ok([ref_ds |-> vm.v.ref_ds, mds |-> vm.v.mds,
                                 dss |-> vm.v.dss])
                        ELSE vm]
    /\ UNCHANGED <<meta, varname, metric_name, variables_list, qmetric, cargs, cmp, plotter>>

\* the state after get_varmeta gave vm
GettingVarmeta(vm) ==
    /\ var' = IF vm.ok /\ var.g = 3
              THEN [var EXCEPT !.other_dss = vm.v.other_dss] ELSE var
    /\ call' = [op |-> "get_varmeta", arg |-> <<>>,
                ret |-> IF vm.ok
                        THEN Ok([ref_ds |-> vm.v.ref_ds, mds |-> vm.v.mds,
                                 dss |-> vm.v.dss])
                        ELSE vm]
    /\ UNCHANGED <<meta, varname, metric_name, variables_list, qmetric, cargs, cmp, plotter>>

\* var.get_varmeta()
DoGetVarmeta ==
    /\ var.constructed
    /\ GettingVarmeta(GetVarmeta(var.g, var.parts))

\* var._parse_varname(), var.varname being varname
DoParseVarname == Call("_parse_varname", varname, Ok(ParseVarname(varname)))

\* ------------------------------------------------------ QA4SMComparison
\* metric + "_between_{}-{}_and_{}-{}"
VarnameTemplate(metric) ==
    [i \in 1..Len(metric) |-> Lit(metric[i])]
    \o Between \o <<FInt(Anon), Lit("-"), FStr(Anon)>>
    \o And \o <<FInt(Anon), Lit("-"), FStr(Anon)>>

\* the name written with the other dataset before the reference
VarnameForOtherFirst(metric, id) ==
    Then(RefId, LAMBDA refid :
    Then(DatasetMetadata(refid, ElemStr("short_name")), LAMBDA ref :
    Then(DatasetMetadata(id, ElemStr("short_name")), LAMBDA other :
      Ok(Format(VarnameTemplate(metric), <<>>,
                <<other.id, other.meta, ref.id, ref.meta>>)))))

\* dataset_metadata(ref_id, "short_name") + dataset_metadata(id, "short_name"),
\* formatted into the template
VarnameFor(metric, id) ==
    Then(RefId, LAMBDA refid :
    Then(DatasetMetadata(refid, ElemStr("short_name")), LAMBDA ref :
    Then(DatasetMetadata(id, ElemStr("short_name")), LAMBDA other :
      Ok(Format(VarnameTemplate(metric), <<>>,
                <<ref.id, ref.meta, other.id, other.meta>>)))))

RECURSIVE VarnamesFrom(_, _)
\* the loop of _get_varnames over the ids left
VarnamesFrom(metric, ids) ==
    IF ids = <<>> THEN Ok(<<>>)
    ELSE Then(VarnameFor(metric, Head(ids)), LAMBDA first :
         Then(VarnamesFrom(metric, Tail(ids)), LAMBDA rest :
           Ok(<<first>> \o rest)))

\* _get_varnames(metric) of a comparison of a single image: one name for
\* each other dataset of the image
GetVarnames(metric) ==
    Then(OthersId, LAMBDA ids : VarnamesFrom(metric, ids))

\* The metrics a caller asks names for.
AskedMetrics == MetricGroups(2) \cup {W("snr"), U("n", "obs")}

DoGetVarnames ==
    \E metric \in AskedMetrics :
        Call("_get_varnames", metric, GetVarnames(metric))

\* ---------------------------------------------------------- QA4SMMetric
\* No QA4SMMetric constructed yet.
NoMetric == [constructed |-> FALSE]

\* globals._metric_name: the metrics that have a pretty name
MetricName(name) ==
    IF \E g \in {0, 2, 3} : name \in MetricGroups(g)
    THEN Ok(<<"pretty ">> \o name)
    ELSE Err("KeyError")

\* What a QA4SMMetricVariable of the given name and global attributes
\* holds after self._parse_varname(): the attributes QA4SMMetric reads.
VariableOf(name, attrs) ==
    [ varname |-> name, attrs |-> attrs,
      g |-> ParseVarname(name).g, parts |-> ParseVarname(name).parts ]

\* the property is_CI of a variable
IsCI(Var) ==
    IF Var.g # NoGroup /\ Var.g # 0
    THEN HasBound(Var.parts)
    ELSE FALSE

\* the loop without its assertion: the value of the last variable
GetAttributeOfLast(variables, attr, previous) ==
    IF variables = <<>> THEN Ok(previous)
    ELSE Ok(variables[Len(variables)][attr])

RECURSIVE GetAttributeFrom(_, _, _)
\* the loop of _get_attribute over the variables left, previous being the
\* value of the variable before them
GetAttributeFrom(variables, attr, previous) ==
    IF variables = <<>> THEN Ok(previous)
    ELSE IF Head(variables)[attr] # previous
         THEN Err("AssertionError")
         ELSE GetAttributeFrom(Tail(variables), attr, Head(variables)[attr])

\* _get_attribute(attr) over self.variables; with no variable the name
\* value is returned unbound
GetAttribute(variables, attr) ==
    IF variables = <<>> THEN Err("UnboundLocalError")
    ELSE GetAttributeFrom(Tail(variables), attr, Head(variables)[attr])

\* QA4SMMetric(name, variables_list): the object, or the error that leaves
\* the constructor.  has_variables tells whether self.variables, self.g and
\* self.attrs were set.
NewMetric(name, variables) ==
    Then(MetricName(name), LAMBDA pretty :
      IF variables = <<>>
      THEN Ok([constructed |-> TRUE, name |-> name, pretty_name |-> pretty,
               has_variables |-> FALSE, variables |-> <<>>,
               g |-> NoGroup, attrs |-> <<>>])
      ELSE Then(GetAttribute(variables, "g"), LAMBDA g :
           Then(GetAttribute(variables, "attrs"), LAMBDA attrs :
             Ok([constructed |-> TRUE, name |-> name, pretty_name |-> pretty,
                 has_variables |-> TRUE, variables |-> variables,
                 g |-> g, attrs |-> attrs]))))

\* Var.is_CI(): the value of the property is a bool, and calling a bool is
\* a TypeError
CalledIsCI(Var) == Err("TypeError")

RECURSIVE HasCIsFrom(_)
\* the loop of has_CIs over the variables left
HasCIsFrom(variables) ==
    IF variables = <<>> THEN Ok(FALSE)
    ELSE Then(CalledIsCI(Head(variables)), LAMBDA ci :
           IF ci THEN Ok(TRUE) ELSE HasCIsFrom(Tail(variables)))

\* the property has_CIs of a metric
HasCIs(m) ==
    IF ~m.has_variables THEN Err("AttributeError")
    ELSE HasCIsFrom(m.variables)

\* The file of another validation: reference ERA5_LAND at 0, C3S at 1.
OtherMeta == AttributeMap(<<0, 1>>, 0, FALSE, TRUE)

\* The variables a caller builds metrics from: Pairwise names, one of them
\* a confidence interval, a Common name and its confidence interval, a TC
\* name and a name that is no metric, each read from one of two files.
MetricVariableNames ==
    { Synthesize(2, FALSE, NameValues(W("R"), <<"upper">>, 2, 5, 2, 3)),
      Synthesize(2, TRUE, NameValues(W("R"), <<"upper">>, 2, 5, 2, 3)),
      Synthesize(0, FALSE, NameValues(U("n", "obs"), <<"lower">>, 2, 5, 2, 3)),
      Synthesize(0, TRUE, NameValues(U("n", "obs"), <<"lower">>, 2, 5, 2, 3)),
      Synthesize(3, FALSE, NameValues(W("snr"), <<"upper">>, 2, 5, 2, 3)),
      <<"lat">> }

MetricVariables ==
    { VariableOf(name, attrs) :
        name \in MetricVariableNames, attrs \in {ScenarioMeta, OtherMeta} }

\* Largest number of variables handed to one metric.
MaxVariables == 3

VariableLists ==
    UNION { [1..n -> MetricVariables] : n \in 0..MaxVariables }

\* The names metrics are built with: of each group, and one unknown.
MetricNames == {W("R"), U("n", "obs"), W("xyz")}

\* the state after the constructor of QA4SMMetric gave new
ConstructingMetric(new) ==
    /\ qmetric' = IF new.ok THEN new.v ELSE qmetric
    /\ call' = [op |-> "QA4SMMetric",
                arg |-> [name |-> metric_name, variables |-> variables_list],
                ret |-> new]
    /\ UNCHANGED <<meta, varname, metric_name, variables_list, var, cargs, cmp, plotter>>

\* QA4SMMetric(metric_name, variables_list)
ConstructMetric == ConstructingMetric(NewMetric(metric_name, variables_list))

\* qmetric.has_CIs
GetHasCIs ==
    /\ qmetric.constructed
    /\ call' = [op |-> "has_CIs", arg |-> <<>>, ret |-> HasCIs(qmetric)]
    /\ UNCHANGED <<meta, varname, metric_name, variables_list, var, qmetric, cargs, cmp, plotter>>

\* ------------------------------- QA4SMMetricVariable: the properties
\* The values handles of the variables whose properties are read: None, a
\* frame, or a frame without rows.
FrameValues == Values \cup {"empty frame"}

\* isempty
IsEmpty(Var) == Var.values = "None" \/ Var.values = "empty frame"

\* ismetric testing the truth of g instead of comparing it with None
IsMetricTruthy(Var) == Var.g # NoGroup /\ Var.g # 0

\* ismetric: self.g is not None
IsMetric(Var) == Var.g # NoGroup

\* id: None when g is None or 0
Id(Var) ==
    IF Var.g # NoGroup /\ Var.g # 0
    THEN IF Var.metric_ds # None THEN Ok(Var.metric_ds.id) ELSE Ok(Var.ref_ds.id)
    ELSE OkNone

\* globals._variable_pretty_name[g] filled in: the display name of a
\* variable of group g
VariablePrettyName(g, metric, mds, ref, dss) ==
    CASE g = 0 -> metric \o <<" between all datasets">>
      [] g = 2 -> metric \o <<" of ">> \o mds \o <<" with ">> \o ref
                  \o <<" as reference">>
      [] g = 3 -> metric \o <<" of ">> \o mds \o <<" against ">> \o ref
                  \o <<", ">> \o dss

\* pretty_name before the prefix: the template of the group filled in with
\* the metric and the titles of the attached datasets
NameFromTemplate(Var) ==
    IF Var.g = 0
    THEN Ok(VariablePrettyName(0, Var.metric, <<>>, <<>>, <<>>))
    ELSE Then(MetricName(Var.Metric), LAMBDA pretty :
           Ok(VariablePrettyName(Var.g, pretty,
                Var.metric_ds.meta.pretty_title,
                Var.ref_ds.meta.pretty_title,
                IF Var.g = 3 THEN Var.other_ds.meta.pretty_title ELSE <<>>)))

\* pretty_name: the table of templates has no entry for None
PrettyName(Var) ==
    IF Var.g = NoGroup THEN Err("KeyError")
    ELSE Then(NameFromTemplate(Var), LAMBDA name :
           Ok(IF IsCI(Var) THEN <<"Confidence Interval of ">> \o name
              ELSE name))

\* reading a property of the variable
ReadProperty(op, ret) ==
    /\ var.constructed
    /\ Call(op, <<>>, ret)

GetIsEmpty == ReadProperty("isempty", Ok(IsEmpty(var)))
GetIsMetric == ReadProperty("ismetric", Ok(IsMetric(var)))
GetId == ReadProperty("id", Id(var))
GetIsCI == ReadProperty("is_CI", Ok(IsCI(var)))
GetPrettyName == ReadProperty("pretty_name", PrettyName(var))

\* ------------------------------------------------------ QA4SMComparison
\* The validation result files on disk: the spatial extent of their
\* points (min_lon, max_lon, min_lat, max_lat), the short name of their
\* reference and the number of their other datasets.
Files ==
    [ a |-> [extent |-> <<0, 2, 0, 2>>, ref |-> "ERA5", others |-> 1],
      b |-> [extent |-> <<1, 3, 1, 3>>, ref |-> "ERA5", others |-> 1],
      c |-> [extent |-> <<5, 6, 5, 6>>, ref |-> "ERA5", others |-> 2],
      d |-> [extent |-> <<0, 2, 0, 2>>, ref |-> "GLDAS", others |-> 3] ]

Paths == DOMAIN Files

\* extent=None
NoExtent == <<>>

\* QA4SMImg(path, extent=extent): the image of a file, its extent being the
\* subset asked for, or the file's own when none is asked for
Img(path, extent) ==
    [ name |-> path,
      extent |-> IF extent = NoExtent THEN Files[path].extent ELSE extent,
      ref |-> Files[path].ref,
      others |-> Files[path].others ]

Min(x, y) == IF x <= y THEN x ELSE y
Max(x, y) == IF x >= y THEN x ELSE y

\* the bounding box of the union of two boxes
BoxUnion(p, q) ==
    <<Min(p[1], q[1]), Max(p[2], q[2]), Min(p[3], q[3]), Max(p[4], q[4])>>

\* the intersection of two boxes, which is empty when they are apart
BoxIntersection(p, q) ==
    <<Max(p[1], q[1]), Min(p[2], q[2]), Max(p[3], q[3]), Min(p[4], q[4])>>

IsEmptyBox(p) == p[1] > p[2] \/ p[3] > p[4]

\* single_image
SingleImage(paths) ==
    IF paths.kind = "str" THEN TRUE ELSE Len(paths.v) = 1

RECURSIVE CombineFrom(_, _, _)
\* the second loop of _combine_geometry over the images left, output being
\* the geometry so far
CombineFrom(imgs, get_intersection, output) ==
    IF imgs = <<>> THEN Ok(output)
    ELSE IF ~get_intersection
    THEN CombineFrom(Tail(imgs), get_intersection,
                     BoxUnion(output, Head(imgs).extent))
    ELSE IF IsEmptyBox(BoxIntersection(output, Head(imgs).extent))
    THEN Err("ComparisonError")
    ELSE CombineFrom(Tail(imgs), get_intersection,
                     BoxIntersection(output, Head(imgs).extent))

\* _combine_geometry: the bounds of the union or of the intersection;
\* without images the name where is not bound
CombineGeometry(imgs, get_intersection) ==
    IF imgs = <<>> THEN Err("UnboundLocalError")
    ELSE CombineFrom(imgs, get_intersection, Head(imgs).extent)

\* get_extent: over the images of self.paths initialised without extent
GetExtent(paths, get_intersection) ==
    CombineGeometry([i \in 1..Len(paths) |-> Img(paths[i], NoExtent)],
                    get_intersection)

\* path in comparison.keys()
HasKey(comparison, path) ==
    \E i \in 1..Len(comparison) : comparison[i].path = path

\* the loop never testing whether the path is there already: a dict keeps
\* one entry for a key, with the value set last
ImgsFromOverwriting(paths, n, extent, comparison) ==
    IF paths = <<>> THEN Ok(comparison)
    ELSE Ok([i \in 1..Len(paths) |->
               [path |-> paths[i], id |-> n + i - 1, img |-> Img(paths[i], extent)]])

RECURSIVE ImgsFrom(_, _, _, _)
\* the loop of _init_imgs over the paths left, n being the number of the
\* next one and comparison the dictionary so far: its entries in order
ImgsFrom(paths, n, extent, comparison) ==
    IF paths = <<>> THEN Ok(comparison)
    ELSE IF HasKey(comparison, Head(paths)) THEN Err("ComparisonError")
    ELSE ImgsFrom(Tail(paths), n + 1, extent,
                  Append(comparison,
                         [path |-> Head(paths), id |-> n,
                          img |-> Img(Head(paths), extent)]))

\* _init_imgs for one image: self.paths becomes the path, the image is
\* returned.  A path given as a string and the list of one path both hold
\* the path as the first element of v.
InitSingle(self, extent) ==
    IF Files[self.paths.v[1]].others <= 1
    THEN Err("ComparisonError")
    ELSE Ok([self |-> [self EXCEPT !.paths = [kind |-> "str", v |-> self.paths.v]],
             comparison |->
               [single |-> TRUE, img |-> Img(self.paths.v[1], extent)]])

\* _init_imgs for several images with no extent given: self.union is set,
\* and self.extent when the intersection is asked for
InitSeveralNoExtent(self, get_intersection) ==
    IF get_intersection
    THEN Then(GetExtent(self.paths.v, TRUE), LAMBDA extent :
         Then(ImgsFrom(self.paths.v, 0, extent, <<>>), LAMBDA comparison :
           Ok([self |-> [self EXCEPT !.extent = extent, !.union = FALSE],
               comparison |-> [single |-> FALSE, entries |-> comparison]])))
    ELSE Then(ImgsFrom(self.paths.v, 0, NoExtent, <<>>), LAMBDA comparison :
           Ok([self |-> [self EXCEPT !.union = TRUE],
               comparison |-> [single |-> FALSE, entries |-> comparison]]))

\* _init_imgs(extent, get_intersection): the object after it and the
\* comparison it returns
InitImgs(self, extent, get_intersection) ==
    IF SingleImage(self.paths) THEN InitSingle(self, extent)
    ELSE IF extent # NoExtent
    THEN Then(ImgsFrom(self.paths.v, 0, extent, <<>>), LAMBDA comparison :
           Ok([self |-> self,
               comparison |-> [single |-> FALSE, entries |-> comparison]]))
    ELSE InitSeveralNoExtent(self, get_intersection)

RECURSIVE CheckRefFrom(_, _)
\* the loop of _check_ref over the entries left, previous being the
\* reference of the entry before
CheckRefFrom(entries, previous) ==
    IF entries = <<>> THEN Ok(previous)
    ELSE IF Head(entries).id # 0 /\ Head(entries).img.ref # previous
    THEN Err("ComparisonError")
    ELSE CheckRefFrom(Tail(entries), Head(entries).img.ref)

\* _check_ref: with no entry at all ref is not bound
CheckRef(self) ==
    IF SingleImage(self.paths) THEN Ok(self.comparison.img.ref)
    ELSE IF self.comparison.entries = <<>> THEN Err("UnboundLocalError")
    ELSE CheckRefFrom(self.comparison.entries, "")

\* QA4SMComparison(paths, extent, get_intersection)
NewComparison(paths, extent, get_intersection) ==
    Then(InitImgs([constructed |-> TRUE, paths |-> paths, extent |-> extent,
                   union |-> FALSE, comparison |-> <<>>, ref |-> ""],
                  extent, get_intersection), LAMBDA r :
    Then(CheckRef([r.self EXCEPT !.comparison = r.comparison]), LAMBDA ref :
      Ok([r.self EXCEPT !.comparison = r.comparison,
                        !.ref = ref,
                        !.union = ~get_intersection])))

\* the object after the first statement of init_union
AfterInitUnion(self) ==
    IF InitImgs(self, NoExtent, FALSE).ok
    THEN [InitImgs(self, NoExtent, FALSE).v.self EXCEPT
            !.comparison = InitImgs(self, NoExtent, FALSE).v.comparison]
    ELSE self

\* init_union: what it returns, or the error of its assertion
InitUnion(self) ==
    Then(InitImgs(self, NoExtent, FALSE), LAMBDA r :
      IF r.self.union THEN Ok("None") ELSE Err("AssertionError"))

RECURSIVE Overlap(_, _)
\* the intersection of the extents of the images of the comparison
Overlap(entries, output) ==
    IF entries = <<>> THEN output
    ELSE Overlap(Tail(entries), BoxIntersection(output, Head(entries).img.extent))

\* overlapping, for several images
Overlapping(self) ==
    ~IsEmptyBox(Overlap(self.comparison.entries,
                        Head(self.comparison.entries).img.extent))

\* _check_pairwise
CheckPairwise(self) ==
    IF \/ Len(self.comparison.entries) > 2
       \/ \E i \in 1..Len(self.comparison.entries) :
            self.comparison.entries[i].img.others + 1 > 2
    THEN Err("ComparisonError")
    ELSE Ok("None")

\* perform_checks(overlapping, union, pairwise)
PerformChecks(self, overlapping, union, pairwise) ==
    IF SingleImage(self.paths) THEN Ok(self.comparison.img.others <= 2)
    ELSE IF overlapping /\ ~Overlapping(self) THEN Err("ComparisonError")
    ELSE IF union /\ self.extent = NoExtent /\ self.union
    THEN Err("ComparisonError")
    ELSE IF pairwise THEN CheckPairwise(self)
    ELSE Ok("None")

\* Largest number of paths in the list handed to QA4SMComparison.
MaxPaths == 3

PathLists == UNION {[1..n -> Paths] : n \in 0..MaxPaths}

\* The arguments of a comparison: a path or a list of paths, an extent or
\* none, and get_intersection.
ComparisonArgs ==
    { [given |-> TRUE, paths |-> paths, extent |-> extent,
       get_intersection |-> gi] :
        paths \in {[kind |-> "str", v |-> <<p>>] : p \in Paths}
                  \cup {[kind |-> "list", v |-> l] : l \in PathLists},
        extent \in {NoExtent, <<0, 1, 0, 1>>},
        gi \in BOOLEAN }

\* the state after a call on the comparison that leaves it as self
Comparing(op, arg, self, ret) ==
    /\ cmp' = self
    /\ call' = [op |-> op, arg |-> arg, ret |-> ret]
    /\ UNCHANGED <<meta, varname, metric_name, variables_list, var, qmetric, cargs, plotter>>

\* the state after the constructor gave new
ConstructingComparison(new) ==
    Comparing("QA4SMComparison", cargs, IF new.ok THEN new.v ELSE cmp, new)

ConstructComparison ==
    ConstructingComparison(
        NewComparison(cargs.paths, cargs.extent, cargs.get_intersection))

DoInitUnion ==
    /\ cmp.constructed
    /\ Comparing("init_union", <<>>, AfterInitUnion(cmp), InitUnion(cmp))

DoCheckRef ==
    /\ cmp.constructed
    /\ Comparing("_check_ref", <<>>, cmp, CheckRef(cmp))

DoPerformChecks ==
    /\ cmp.constructed
    /\ \E overlapping \in BOOLEAN, union \in BOOLEAN, pairwise \in BOOLEAN :
         Comparing("perform_checks",
                   [overlapping |-> overlapping, union |-> union,
                    pairwise |-> pairwise],
                   cmp, PerformChecks(cmp, overlapping, union, pairwise))

\* --------------------------------------------------------- QA4SMPlotter
\* A path is its parts, each part a name written as tokens, the dot being
\* a token of its own; an absolute path says so.
PathOf(absolute, parts) == [absolute |-> absolute, parts |-> parts]

\* out_dir.joinpath(out_name): an absolute out_name stands for itself
JoinPath(dir, name) ==
    IF name.absolute THEN name
    ELSE PathOf(dir.absolute, dir.parts \o name.parts)

\* Path.name: the last part, empty for a path without parts
NameOf(path) ==
    IF path.parts = <<>> THEN <<>> ELSE path.parts[Len(path.parts)]

\* name.rfind('.'), counted from 1, 0 when the name has no dot
LastDot(name) ==
    IF \E i \in 1..Len(name) : name[i] = "."
    THEN CHOOSE i \in 1..Len(name) :
           name[i] = "." /\ \A j \in (i + 1)..Len(name) : name[j] # "."
    ELSE 0

\* Path.suffix: from the last dot of the name on, unless the dot is the
\* first or the last character
Suffix(path) ==
    IF 1 < LastDot(NameOf(path)) /\ LastDot(NameOf(path)) < Len(NameOf(path))
    THEN SubSeq(NameOf(path), LastDot(NameOf(path)), Len(NameOf(path)))
    ELSE <<>>

\* _standard_filename(out_name, out_type).  out_type[0] of an empty string
\* is an IndexError; out_path.with_suffix(out_type) returns a new path,
\* which the method does not keep: out_path is returned as it was joined.
StandardFilename(out_dir, out_name, out_type) ==
    IF Suffix(JoinPath(out_dir, out_name)) # <<>>
    THEN Ok(JoinPath(out_dir, out_name))
    ELSE IF out_type = <<>> THEN Err("IndexError")
    ELSE Ok(JoinPath(out_dir, out_name))

\* The output directories of a plotter.
OutDirs ==
    { PathOf(TRUE, <<<<"out">>>>),
      PathOf(FALSE, <<<<"plots">>, <<"v1", ".", "0">>>>),
      PathOf(TRUE, <<<<"data">>, <<"run">>>>) }

\* The file names of the plots: with and without extension, in a
\* subdirectory, hidden, ending in a dot, and absolute.
PlotNames ==
    { <<"boxplot">>, <<"boxplot", ".", "png">>, <<"boxplot", ".", "svg">>,
      <<"map", ".", "tar", ".", "gz">>, <<".", "hidden">>, <<"plot", ".">>,
      <<"R", "_", "between", "_", "0", "-", "ERA5">> }

OutNames ==
    { PathOf(FALSE, <<name>>) : name \in PlotNames }
    \cup { PathOf(FALSE, <<<<"sub">>, name>>) : name \in PlotNames }
    \cup { PathOf(TRUE, <<<<"tmp">>, name>>) : name \in PlotNames }

\* The types asked for: with and without the dot, and the empty string.
OutTypes == { <<"png">>, <<".", "png">>, <<"svg">>, <<".", "pdf">>, <<>> }

DoStandardFilename ==
    /\ plotter.constructed
    /\ \E out_name \in OutNames, out_type \in OutTypes :
         /\ call' = [op |-> "_standard_filename",
                     arg |-> [out_name |-> out_name, out_type |-> out_type],
                     ret |-> StandardFilename(plotter.out_dir, out_name, out_type)]
         /\ UNCHANGED <<meta, varname, metric_name, variables_list, var, qmetric,
                        cargs, cmp, plotter>>

Init ==
    /\ meta \in Metas
    /\ varname \in VarNames \cup FileNames
    /\ metric_name = W("R")
    /\ variables_list = <<>>
    /\ var = NoVar
    /\ qmetric = NoMetric
    /\ cargs = NoArgs
    /\ cmp = NoComparison
    /\ plotter = NoPlotter
    /\ call = NoCall

InitDatasets ==
    /\ meta \in Metas
    /\ varname = <<"lat">>
    /\ metric_name = W("R")
    /\ variables_list = <<>>
    /\ var = NoVar
    /\ qmetric = NoMetric
    /\ cargs = NoArgs
    /\ cmp = NoComparison
    /\ plotter = NoPlotter
    /\ call = NoCall

NextDatasets ==
    \/ GetOffset
    \/ GetRefId
    \/ GetOthersId
    \/ GetNDatasets
    \/ GetRef
    \/ GetOthers
    \/ GetDatasetMetadata

SpecDatasets == InitDatasets /\ [][NextDatasets]_vars

InitParser ==
    /\ meta = ScenarioMeta
    /\ varname \in VarNames
    /\ metric_name = W("R")
    /\ variables_list = <<>>
    /\ var = NoVar
    /\ qmetric = NoMetric
    /\ cargs = NoArgs
    /\ cmp = NoComparison
    /\ plotter = NoPlotter
    /\ call = NoCall

NextParser == DoParseVarname

SpecParser == InitParser /\ [][NextParser]_vars

InitVariable ==
    /\ meta \in AscendingMetas
    /\ varname \in FileNames \cup ForeignNames \cup NonMetricNames \cup OddNames
    /\ metric_name = W("R")
    /\ variables_list = <<>>
    /\ var = NoVar
    /\ qmetric = NoMetric
    /\ cargs = NoArgs
    /\ cmp = NoComparison
    /\ plotter = NoPlotter
    /\ call = NoCall

NextVariable ==
    \/ Construct
    \/ DoGetVarmeta

SpecVariable == InitVariable /\ [][NextVariable]_vars

\* the variable and the call after QA4SMMetricVariable(varname, meta, values)
\* gave new
ConstructedWith(values, new) ==
    /\ var = IF new.ok THEN new.v ELSE NoVar
    /\ call = [op |-> "__init__", arg |-> [varname |-> varname, values |-> values],
               ret |-> new]

\* The files whose variables have their properties read: every file of
\* one or two datasets, with and without the attribute naming the
\* reference, the canonical file, and the canonical file with twins.
PropertyMetas ==
    UNION { { AttributeMap(Ascending(D), r, FALSE, withRef) :
                r \in D, withRef \in BOOLEAN } :
            D \in {E \in DatasetSets : Cardinality(E) <= 2} }
    \cup {ScenarioMeta, AttributeMap(<<1, 2, 3, 4>>, 4, TRUE, TRUE)}

\* A variable just constructed, or the constructor having raised.
InitProperties ==
    /\ meta \in PropertyMetas
    /\ varname \in FileNames \cup NonMetricNames \cup OddNames
    /\ metric_name = W("R")
    /\ variables_list = <<>>
    /\ qmetric = NoMetric
    /\ cargs = NoArgs
    /\ cmp = NoComparison
    /\ plotter = NoPlotter
    /\ \E values \in FrameValues :
         ConstructedWith(values, NewVariable(varname, values))

NextProperties ==
    \/ DoGetVarmeta
    \/ GetIsEmpty
    \/ GetIsMetric
    \/ GetId
    \/ GetIsCI
    \/ GetPrettyName

SpecProperties == InitProperties /\ [][NextProperties]_vars

InitComparison ==
    /\ meta \in Metas
    /\ varname = <<"lat">>
    /\ metric_name = W("R")
    /\ variables_list = <<>>
    /\ var = NoVar
    /\ qmetric = NoMetric
    /\ cargs = NoArgs
    /\ cmp = NoComparison
    /\ plotter = NoPlotter
    /\ call = NoCall

NextComparison == DoGetVarnames

SpecComparison == InitComparison /\ [][NextComparison]_vars

InitImages ==
    /\ meta = ScenarioMeta
    /\ varname = <<"lat">>
    /\ metric_name = W("R")
    /\ variables_list = <<>>
    /\ var = NoVar
    /\ qmetric = NoMetric
    /\ cargs \in ComparisonArgs
    /\ cmp = NoComparison
    /\ plotter = NoPlotter
    /\ call = NoCall

NextImages ==
    \/ ConstructComparison
    \/ DoInitUnion
    \/ DoCheckRef
    \/ DoPerformChecks

SpecImages == InitImages /\ [][NextImages]_vars

InitPlotter ==
    /\ meta = ScenarioMeta
    /\ varname = <<"lat">>
    /\ metric_name = W("R")
    /\ variables_list = <<>>
    /\ var = NoVar
    /\ qmetric = NoMetric
    /\ cargs = NoArgs
    /\ cmp = NoComparison
    /\ plotter \in {[constructed |-> TRUE, out_dir |-> d] : d \in OutDirs}
    /\ call = NoCall

NextPlotter == DoStandardFilename

SpecPlotter == InitPlotter /\ [][NextPlotter]_vars

InitMetric ==
    /\ meta = ScenarioMeta
    /\ varname = <<"lat">>
    /\ metric_name \in MetricNames
    /\ variables_list \in VariableLists
    /\ var = NoVar
    /\ qmetric = NoMetric
    /\ cargs = NoArgs
    /\ cmp = NoComparison
    /\ plotter = NoPlotter
    /\ call = NoCall

NextMetric ==
    \/ ConstructMetric
    \/ GetHasCIs

SpecMetric == InitMetric /\ [][NextMetric]_vars

Next ==
    \/ NextDatasets
    \/ NextParser
    \/ NextVariable
    \/ NextProperties
    \/ NextComparison
    \/ NextImages
    \/ NextPlotter
    \/ NextMetric

Spec == Init /\ [][Next]_vars

\* ===================================================================
\* Properties
\* ===================================================================
\* What the attribute map says, read straight from it.
HasRef == RefDsAttr \in DOMAIN meta.val
\* the internal index the reference attribute names
RefIndex == ToInt(meta.val[RefDsAttr][2])
\* the internal indices that have a short-name key
DatasetIndices ==
    {ToInt(k[2]) : k \in {q \in DOMAIN meta.val : q[1] = "val_dc_dataset"}}
OtherIndices == DatasetIndices \ {RefIndex}
ExpectedOffset == IF RefIndex # 0 THEN -1 ELSE 0
\* the name fields of the dataset of internal index dc
NamesAt(dc) ==
    [ short_name |-> meta.val[Key("val_dc_dataset", dc)],
      pretty_name |-> meta.val[Key("val_dc_dataset_pretty_name", dc)],
      short_version |-> meta.val[Key("val_dc_version", dc)],
      pretty_version |-> meta.val[Key("val_dc_version_pretty_name", dc)],
      pretty_title |-> meta.val[Key("val_dc_dataset_pretty_name", dc)] \o <<" (">>
                       \o meta.val[Key("val_dc_version_pretty_name", dc)] \o <<")">> ]
Range(s) == {s[i] : i \in 1..Len(s)}

\* C1 as stated: every id exposed for variable names (ref_id, the members
\* of others_id) is the dataset's internal index plus offset.
C1_IdIsIndexPlusOffset ==
    HasRef =>
      /\ call.op = "ref_id" =>
           call.ret.ok /\ call.ret.v = RefIndex + ExpectedOffset
      /\ call.op = "others_id" =>
           /\ call.ret.ok
           /\ Range(call.ret.v) = {dc + ExpectedOffset : dc \in OtherIndices}

\* C1 amended: every id exposed for variable names is the dataset's
\* internal index MINUS offset (the index itself when the reference's index
\* is 0, the index plus one otherwise), one id per other dataset.
C1_IdIsIndexMinusOffset ==
    HasRef =>
      /\ call.op = "ref_id" =>
           call.ret.ok /\ call.ret.v = RefIndex - ExpectedOffset
      /\ call.op = "others_id" =>
           /\ call.ret.ok
           /\ Len(call.ret.v) = Cardinality(OtherIndices)
           /\ Range(call.ret.v) = {dc - ExpectedOffset : dc \in OtherIndices}

C1_Witness ==
    /\ HasRef /\ RefIndex # 0
    /\ call.op = "others_id" /\ call.ret.ok /\ Len(call.ret.v) >= 2

\* C2: offset is 0 if and only if the reference attribute names internal
\* index 0, and is -1 for every other index.
C2_OffsetZeroIffRefZero ==
    (HasRef /\ call.op = "offset") =>
      /\ call.ret.ok
      /\ call.ret.v = 0 <=> RefIndex = 0
      /\ RefIndex # 0 => call.ret.v = -1

C2_Witness ==
    /\ HasRef /\ RefIndex = MaxDc
    /\ call.op = "offset" /\ call.ret.ok /\ call.ret.v = -1

\* C3: n_datasets returns the number of datasets of the map, 1 plus the
\* number of distinct non-reference indices among the short-name keys,
\* whatever the reference's index is.
C3_CountsDatasets ==
    (HasRef /\ call.op = "n_datasets") =>
      /\ call.ret.ok
      /\ call.ret.v = Cardinality(DatasetIndices)
      /\ call.ret.v = 1 + Cardinality(OtherIndices)

C3_Witness ==
    /\ HasRef /\ RefIndex # 0 /\ Cardinality(DatasetIndices) >= 3
    /\ call.op = "n_datasets" /\ call.ret.ok /\ call.ret.v >= 3

\* C4: for every id among ref_id and others_id, dataset_metadata(id)
\* returns that id with the name fields of the dataset whose internal index
\* produced the id; dataset_metadata(ref_id) returns the fields of ref.
C4_RoundTrip ==
    (HasRef /\ call.op = "dataset_metadata" /\ call.arg.element.kind = "none") =>
      LET id == call.arg.id
      IN  /\ id = RefId.v =>
                /\ call.ret.ok
                /\ call.ret.v.id = id
                /\ call.ret.v.meta = Ref.v
                /\ call.ret.v.meta = NamesAt(RefIndex)
          /\ \A i \in 1..Len(OthersId.v) :
                id = OthersId.v[i] =>
                    /\ call.ret.ok
                    /\ call.ret.v.id = id
                    /\ call.ret.v.meta = NamesAt(Dcs.v[i])
                    /\ call.ret.v.meta = Others.v[i]

C4_Witness ==
    /\ HasRef /\ RefIndex # 0
    /\ call.op = "dataset_metadata" /\ call.arg.element.kind = "none"
    /\ call.arg.id = RefId.v
    /\ call.ret.ok /\ call.ret.v.meta = NamesAt(RefIndex)

\* The names the scenario speaks of: the Pairwise template with the
\* registry's reference id and the registry's id for C3S.
ScenarioNames ==
    { Synthesize(2, FALSE,
                 [ metric |-> m,
                   ref_id |-> RefId.v, ref_ds |-> Ref.v.short_name,
                   sat_id0 |-> OthersId.v[i], sat_ds0 |-> Others.v[i].short_name ]) :
        m \in MetricGroups(2),
        i \in {j \in 1..Len(OthersId.v) : Others.v[j].short_name = <<"C3S">>} }

\* C5: in the file with reference ERA5 at index 4 and C3S, ASCAT, SMOS at
\* 1, 2, 3, offset is -1 and a Pairwise name carrying the registry's
\* reference id and its id for C3S resolves to a variable whose reference
\* dataset is ERA5 and whose metric dataset is C3S.
C5_Scenario ==
    meta = ScenarioMeta =>
      /\ Offset = Ok(-1)
      /\ (call.op = "__init__" /\ call.arg.varname \in ScenarioNames) =>
           /\ call.ret.ok
           /\ call.ret.v.g = 2
           /\ call.ret.v.ref_ds.meta.short_name = <<"ERA5">>
           /\ call.ret.v.metric_ds.meta.short_name = <<"C3S">>
           /\ var = call.ret.v

C5_Witness ==
    /\ meta = ScenarioMeta
    /\ call.op = "__init__" /\ call.arg.varname \in ScenarioNames
    /\ var.constructed /\ var.metric_ds.meta.short_name = <<"C3S">>

\* The attempts of the parser, in their order: for each group of the
\* table, the primary template and then the confidence-interval template.
Attempts ==
    << [g |-> 0, ci |-> FALSE], [g |-> 0, ci |-> TRUE],
       [g |-> 2, ci |-> FALSE], [g |-> 2, ci |-> TRUE],
       [g |-> 3, ci |-> FALSE], [g |-> 3, ci |-> TRUE] >>
TemplateOf(a) ==
    IF a.ci THEN VarNameCI(a.g) \o VarNameDsSep(a.g)
    ELSE VarNameMetricSep(a.g) \o VarNameDsSep(a.g)
\* the template matches and the captured metric is a known one of the group
Accepts(a, name) ==
    LET m == Match(TemplateOf(a), name)
    IN  m.ok /\ m.named["metric"] \in MetricGroups(a.g)
ResultOf(a, name) ==
    LET m == Match(TemplateOf(a), name)
    IN  [metric |-> m.named["metric"], g |-> a.g, parts |-> m.named]
Parsed == call.op = "_parse_varname"

\* C6: _parse_varname never raises; it returns (None, None, None) exactly
\* when no attempt accepts the name, as for lat, time and gpi.
C6_NoMatchIffNoAttemptAccepts ==
    Parsed =>
      /\ call.ret.ok
      /\ call.ret.v = NoParse <=>
           \A i \in 1..Len(Attempts) : ~Accepts(Attempts[i], call.arg)
      /\ call.ret.v.g = NoGroup => call.ret.v = NoParse
      /\ call.arg \in {<<"lat">>, <<"time">>, <<"gpi">>} => call.ret.v = NoParse

C6_Witness ==
    /\ Parsed /\ call.arg = <<"gpi">>
    /\ call.ret.ok /\ call.ret.v = NoParse

\* C7: _parse_varname returns the result of the first attempt, in the
\* order of the table and primary before confidence-interval, that accepts.
C7_FirstAcceptingAttempt ==
    Parsed =>
      \A i \in 1..Len(Attempts) :
        (/\ Accepts(Attempts[i], call.arg)
         /\ \A j \in 1..(i - 1) : ~Accepts(Attempts[j], call.arg))
        => call.ret.v = ResultOf(Attempts[i], call.arg)

\* an earlier template matches the name and is turned down for its metric,
\* a later attempt accepts
C7_Witness ==
    /\ Parsed /\ call.ret.v.g = 3
    /\ Match(TemplateOf(Attempts[3]), call.arg).ok
    /\ "bound" \in DOMAIN call.ret.v.parts

\* the fields of the parts the resolution of a group reads
FieldsRead(g) ==
    CASE g = 0 -> {}
      [] g = 2 -> {"ref_id", "sat_id0"}
      [] g = 3 -> {"ref_id", "mds_id", "sat_id0", "sat_id1"}

\* C8: whenever _parse_varname returns a group, the metric is a known
\* metric of that group and the parts bind every dataset-reference field
\* the resolution of that group reads.
C8_MetricKnownAndFieldsBound ==
    (Parsed /\ call.ret.v.g # NoGroup) =>
      /\ call.ret.v.g \in {0, 2, 3}
      /\ call.ret.v.metric \in MetricGroups(call.ret.v.g)
      /\ call.ret.v.parts["metric"] = call.ret.v.metric
      /\ FieldsRead(call.ret.v.g) \subseteq DOMAIN call.ret.v.parts
      /\ \A f \in FieldsRead(call.ret.v.g) : call.ret.v.parts[f] \in Int

C8_Witness ==
    /\ Parsed /\ call.ret.v.g = 3
    /\ call.ret.v.metric = <<"err", "_", "std">>
    /\ call.ret.v.parts["mds_id"] # call.ret.v.parts["sat_id1"]

C10_BoundParsed ==
    Parsed =>
      \A g \in {0, 2, 3}, m \in SampleMetrics, b \in Bounds,
         mds \in 1..2, ref \in {0, MaxDc}, sat0 \in 1..2, sat1 \in 1..2 :
        LET values == NameValues(m, b, mds, ref, sat0, sat1)
        IN  m \in MetricGroups(g) =>
              /\ call.arg = Synthesize(g, TRUE, values) =>
                   /\ call.ret.v.g = g
                   /\ call.ret.v.metric = m
                   /\ "bound" \in DOMAIN call.ret.v.parts
                   /\ call.ret.v.parts["bound"] = b
              /\ call.arg = Synthesize(g, FALSE, values) =>
                   /\ call.ret.v.g = g
                   /\ call.ret.v.metric = m
                   /\ "bound" \notin DOMAIN call.ret.v.parts

C10_Witness ==
    /\ Parsed
    /\ call.arg = Synthesize(0, TRUE, NameValues(U("n", "obs"), <<"lower">>, 1, 0, 1, 1))
    /\ call.ret.v.g = 0
    /\ call.ret.v.parts["bound"] = <<"lower">>

\* A constructor call that returned a variable of group g.
ConstructedOf(g) ==
    call.op = "__init__" /\ call.ret.ok /\ call.ret.v.g = g
\* the pair (id, names) an id of a variable name stands for, read straight
\* from the attribute map
PairOf(id) == [id |-> id, meta |-> NamesAt(id + ExpectedOffset)]

\* C11 as stated: the metric dataset and the other dataset of a resolved
\* TripleCollocation variable are never the identical dataset, whatever
\* ids mds_id, sat_id0 and sat_id1 the name carries.
C11_TcSlotsNeverIdentical ==
    ConstructedOf(3) => call.ret.v.metric_ds # call.ret.v.other_ds

\* the name carries one id in its three slots and the variable holds one
\* dataset in both roles
C11_Witness ==
    /\ ConstructedOf(3)
    /\ call.ret.v.parts["mds_id"] = call.ret.v.parts["sat_id1"]
    /\ call.ret.v.parts["mds_id"] = call.ret.v.parts["sat_id0"]
    /\ call.ret.v.metric_ds = call.ret.v.other_ds

\* C12 as stated: the other dataset of a TripleCollocation variable is
\* resolved from sat_id0 exactly when sat_id1 and mds_id resolve to
\* datasets of the same name fields, and from sat_id1 otherwise.
C12_AlternateWhenSameNames ==
    ConstructedOf(3) =>
      LET p == call.ret.v.parts
      IN  call.ret.v.other_ds =
            IF PairOf(p["sat_id1"]).meta = PairOf(p["mds_id"]).meta
            THEN PairOf(p["sat_id0"]) ELSE PairOf(p["sat_id1"])

\* C12: a resolved TripleCollocation variable has the lookup of ref_id as
\* reference and the lookup of mds_id as metric dataset; its other dataset
\* is the lookup of sat_id1, except that it is the lookup of sat_id0 exactly
\* when sat_id1 and mds_id resolve to the same pair (id, names), which is
\* when the two ids are equal.
C12_AlternateWhenSamePair ==
    ConstructedOf(3) =>
      LET p == call.ret.v.parts
      IN  /\ call.ret.v.ref_ds = PairOf(p["ref_id"])
          /\ call.ret.v.metric_ds = PairOf(p["mds_id"])
          /\ call.ret.v.other_ds =
               IF p["sat_id1"] = p["mds_id"]
               THEN PairOf(p["sat_id0"]) ELSE PairOf(p["sat_id1"])
          /\ (PairOf(p["sat_id1"]) = PairOf(p["mds_id"])) <=>
               (p["sat_id1"] = p["mds_id"])

\* two datasets of the same names at different ids: the other dataset stays
\* the lookup of sat_id1
C12_Witness ==
    /\ ConstructedOf(3)
    /\ call.ret.v.parts["sat_id1"] # call.ret.v.parts["mds_id"]
    /\ call.ret.v.parts["sat_id0"] = call.ret.v.parts["mds_id"]
    /\ call.ret.v.other_ds.meta = call.ret.v.metric_ds.meta
    /\ call.ret.v.other_ds.id = call.ret.v.parts["sat_id1"]

\* the alternate candidate taken
C12_WitnessAlternate ==
    /\ ConstructedOf(3)
    /\ call.ret.v.parts["sat_id1"] = call.ret.v.parts["mds_id"]
    /\ call.ret.v.parts["sat_id0"] # call.ret.v.parts["mds_id"]
    /\ call.ret.v.other_ds = PairOf(call.ret.v.parts["sat_id0"])

\* the registry's reference as a pair (id, names), read straight from the
\* attribute map
RefPair == PairOf(RefIndex - ExpectedOffset)

\* C13 as stated: a variable constructed from a Common name has the
\* registry's reference dataset attached as ref_ds, and None as metric
\* dataset and as other dataset.
C13_CommonHasReference ==
    (ConstructedOf(0) /\ HasRef) =>
      /\ call.ret.v.ref_ds = RefPair
      /\ call.ret.v.metric_ds = None
      /\ call.ret.v.other_ds = None

\* a Common variable constructed from a file that names its reference:
\* the constructor set none of the three attributes
C13_Witness ==
    /\ ConstructedOf(0) /\ HasRef
    /\ call.arg.varname = U("n", "obs")
    /\ call.ret.v.ref_ds = Unset
    /\ call.ret.v.metric_ds = Unset
    /\ call.ret.v.other_ds = Unset

\* C14 as stated: a resolved Pairwise variable has the registry's reference
\* dataset (ref, with id ref_id) as reference, the lookup of its single
\* other id as metric dataset, and None as other dataset.
C14_PairwiseRoles ==
    ConstructedOf(2) =>
      /\ call.ret.v.ref_ds = RefPair
      /\ call.ret.v.ref_ds = [id |-> RefId.v, meta |-> Ref.v]
      /\ call.ret.v.metric_ds = PairOf(call.ret.v.parts["sat_id0"])
      /\ call.ret.v.other_ds = None

\* a Pairwise variable whose reference is not the registry's
C14_Witness ==
    /\ ConstructedOf(2)
    /\ call.ret.v.ref_ds = PairOf(call.ret.v.parts["ref_id"])
    /\ call.ret.v.ref_ds.id # RefId.v
    /\ call.ret.v.ref_ds.meta # Ref.v

\* What holds of a resolved Pairwise variable: the reference is the lookup
\* of the id in the name's reference slot, which is the registry's
\* reference when the name carries the registry's ref_id.
C14_PairwiseRolesFromName ==
    ConstructedOf(2) =>
      /\ call.ret.v.ref_ds = PairOf(call.ret.v.parts["ref_id"])
      /\ call.ret.v.parts["ref_id"] = RefId.v => call.ret.v.ref_ds = RefPair
      /\ call.ret.v.metric_ds = PairOf(call.ret.v.parts["sat_id0"])
      /\ call.ret.v.other_ds = None

\* whether a variable is a confidence interval: its name carries a bound
CarriesBound(Var) == "bound" \in DOMAIN Var.parts

\* C15 as stated: has_CIs of a metric built from a sequence of variables
\* returns True if at least one of them is a confidence-interval variable
\* and False otherwise.
C15_HasCIsIffSomeBound ==
    (call.op = "has_CIs" /\ qmetric.has_variables) =>
      /\ call.ret.ok
      /\ call.ret.v = (\E i \in 1..Len(qmetric.variables) :
                         CarriesBound(qmetric.variables[i]))

\* has_CIs asked of a metric built over one confidence interval and one
\* plain variable of the same metric and group: it raises
C15_Witness ==
    /\ call.op = "has_CIs" /\ qmetric.has_variables
    /\ qmetric.name = W("R") /\ qmetric.g = 2
    /\ Len(qmetric.variables) = 2
    /\ CarriesBound(qmetric.variables[1])
    /\ ~CarriesBound(qmetric.variables[2])
    /\ call.ret = Err("TypeError")

\* some two variables of the sequence differ in g or in attrs
Disagree(variables) ==
    \E i, j \in 1..Len(variables) :
        \/ variables[i].g # variables[j].g
        \/ variables[i].attrs # variables[j].attrs

C16_WitnessAgree ==
    /\ call.op = "QA4SMMetric"
    /\ Len(call.arg.variables) = 3
    /\ call.ret.ok /\ call.ret.v.g = 2

\* the operations of the registry that need the reference's index
NeedsReference ==
    {"offset", "ref_id", "others_id", "n_datasets", "ref", "dataset_metadata"}

\* C17 as stated: when the map lacks the attribute naming the reference,
\* every operation that needs the reference's index fails, and the error
\* the caller gets is the KeyError of the missing attribute.
C17_MissingReferenceIsKeyError ==
    (~HasRef /\ call.op \in NeedsReference) =>
      /\ ~call.ret.ok
      /\ call.ret.err = "KeyError"

\* without the attribute, offset fails with a TypeError
C17_Witness ==
    /\ ~HasRef /\ Cardinality(DatasetIndices) >= 2
    /\ call.op = "offset"
    /\ call.ret = Err("TypeError")

\* C17, the part that holds: each of these operations fails, whatever the
\* error, on a map without the attribute that has a dataset
C17_MissingReferenceFails ==
    (~HasRef /\ call.op \in NeedsReference) => ~call.ret.ok

\* the ids of the registry: ref_id and the members of others_id
KnownIds == {dc - ExpectedOffset : dc \in DatasetIndices}

\* C18: on a well-formed map, dataset_metadata(id) for an id that is
\* neither ref_id nor a member of others_id fails (the key of the index
\* the id stands for is missing) and returns no dataset.
C18_UnknownIdFails ==
    (/\ HasRef
     /\ call.op = "dataset_metadata"
     /\ call.arg.id \notin KnownIds) =>
      /\ ~call.ret.ok
      /\ call.ret.err = "KeyError"

\* the id one above the largest of a registry of three datasets whose
\* reference is not at index 0
C18_Witness ==
    /\ HasRef /\ RefIndex # 0 /\ Cardinality(DatasetIndices) = 3
    /\ call.op = "dataset_metadata" /\ call.arg.element.kind = "none"
    /\ call.arg.id \notin KnownIds
    /\ call.arg.id - 1 \in KnownIds
    /\ call.ret = Err("KeyError")

\* C19: get_varmeta of a variable whose name parsed to no group fails and
\* returns no roles; the variable keeps no resolved dataset.
C19_NoGroupFails ==
    (call.op = "get_varmeta" /\ var.g = NoGroup) =>
      /\ ~call.ret.ok
      /\ var.ref_ds = Unset
      /\ var.metric_ds = Unset
      /\ var.other_ds = Unset
      /\ var.other_dss = Unset

\* get_varmeta of a variable of a well-formed file whose name is no metric
C19_Witness ==
    /\ HasRef /\ Cardinality(DatasetIndices) >= 2
    /\ call.op = "get_varmeta"
    /\ var.constructed /\ var.g = NoGroup /\ var.varname \in NonMetricNames
    /\ call.ret = Err("TypeError")

\* no value occurs twice in s
NoDuplicates(s) == \A i, j \in 1..Len(s) : s[i] = s[j] => i = j

\* C20: others_id holds one id for each index captured from a short-name
\* key that differs from the reference's index, no id twice and never
\* ref_id; others has the length and the order of others_id.
C20_OthersAreTheDistinctNonReference ==
    HasRef =>
      /\ call.op = "others_id" =>
           /\ call.ret.ok
           /\ NoDuplicates(call.ret.v)
           /\ RefIndex - ExpectedOffset \notin Range(call.ret.v)
           /\ Range(call.ret.v) = {dc - ExpectedOffset : dc \in OtherIndices}
      /\ call.op = "others" =>
           /\ call.ret.ok
           /\ Len(call.ret.v) = Len(OthersId.v)
           /\ Len(call.ret.v) = Cardinality(OtherIndices)
           /\ \A i \in 1..Len(call.ret.v) :
                call.ret.v[i] = NamesAt(OthersId.v[i] + ExpectedOffset)

\* others of a registry of three datasets whose keys come in descending
\* order and whose reference is in the middle
C20_Witness ==
    /\ HasRef /\ RefIndex # 0
    /\ call.op = "others" /\ call.ret.ok /\ Len(call.ret.v) = 2
    /\ OthersId.v[1] > OthersId.v[2]
    /\ RefIndex - ExpectedOffset < OthersId.v[1]
    /\ RefIndex - ExpectedOffset > OthersId.v[2]
    /\ call.ret.v[1] = NamesAt(OthersId.v[1] + ExpectedOffset)
    /\ call.ret.v[1] # call.ret.v[2]

\* no step changes the attribute map
MapUnchanged == [][meta' = meta]_vars

\* what the constructor stored from its arguments and its parse
Stored(Var) ==
    [ varname |-> Var.varname, metric |-> Var.metric, g |-> Var.g,
      parts |-> Var.parts, values |-> Var.values ]

\* C21: no operation modifies the attribute map it was given; the
\* constructor stores the name and the values handle as given, and no
\* property read and no get_varmeta call changes the varname, metric, g,
\* parts or values of the variable.
C21_Frame ==
    /\ []((call.op = "__init__" /\ call.ret.ok) =>
            /\ var.varname = call.arg.varname
            /\ var.values = call.arg.values
            /\ var.g = ParseVarname(call.arg.varname).g
            /\ var.parts = ParseVarname(call.arg.varname).parts
            /\ var.metric = ParseVarname(call.arg.varname).metric)
    /\ [][/\ meta' = meta
          /\ var.constructed =>
                (var'.constructed /\ Stored(var') = Stored(var))]_vars

\* get_varmeta called on a TripleCollocation variable holding a frame: it
\* stores other_dss and leaves the rest
C21_Witness ==
    /\ call.op = "get_varmeta" /\ call.ret.ok
    /\ var.g = 3 /\ var.values = "frame"
    /\ var.varname = varname
    /\ var.other_dss # Unset

\* the display name starts with the prefix of confidence intervals
Prefixed(name) == Len(name) >= 1 /\ name[1] = "Confidence Interval of "

\* C22 as stated: is_CI is True exactly for the variables whose parts hold
\* a bound, in every group, Common included; such a variable's bound
\* attribute is the parsed token and its pretty name carries the prefix.
C22_IsCIIffBound ==
    /\ call.op = "is_CI" => call.ret = Ok(CarriesBound(var))
    /\ (var.constructed /\ CarriesBound(var)) =>
         var.bound = var.parts["bound"]
    /\ (call.op = "pretty_name" /\ call.ret.ok) =>
         (Prefixed(call.ret.v) <=> CarriesBound(var))

\* a Common confidence-interval variable: is_CI is False, no bound is set
C22_Witness ==
    /\ call.op = "is_CI"
    /\ var.g = 0 /\ CarriesBound(var) /\ var.parts["bound"] = <<"upper">>
    /\ call.ret = Ok(FALSE)
    /\ var.bound = NoBound

\* C22, the part that holds: the same for the variables of the Pairwise
\* and TripleCollocation groups
C22_IsCIIffBoundBeyondCommon ==
    (var.constructed /\ var.g # 0) =>
      /\ call.op = "is_CI" => call.ret = Ok(CarriesBound(var))
      /\ CarriesBound(var) => var.bound = var.parts["bound"]
      /\ (call.op = "pretty_name" /\ call.ret.ok) =>
           (Prefixed(call.ret.v) <=> CarriesBound(var))

\* C23 as stated: id is the id of the metric dataset for a variable of
\* group 2 or 3 and the id of the reference dataset for one of group 0.
C23_IdOfMetricOrReference ==
    (call.op = "id" /\ HasRef) =>
      /\ var.g \in {2, 3} =>
           call.ret = Ok(var.parts[IF var.g = 2 THEN "sat_id0" ELSE "mds_id"])
      /\ var.g = 0 => call.ret = Ok(RefIndex - ExpectedOffset)

\* a Common variable of a well-formed file: id is None
C23_Witness ==
    /\ call.op = "id" /\ HasRef /\ RefIndex # 0
    /\ var.g = 0 /\ var.varname = U("n", "obs")
    /\ call.ret = OkNone

\* C23, the part that holds: the id of the metric dataset for groups 2, 3
C23_IdOfMetric ==
    (call.op = "id" /\ var.g \in {2, 3}) =>
      call.ret = Ok(var.parts[IF var.g = 2 THEN "sat_id0" ELSE "mds_id"])

\* the group the name handed to the constructor parses to
GroupOfName == ParseVarname(varname).g

\* C24: the constructor completes for a name that parses to no group,
\* whatever the attribute map, and attaches no Metric and no dataset role;
\* such a variable has ismetric False and is_CI False, and ismetric is True
\* for every variable whose name parses to a group, Common included.
C24_NonMetricConstructs ==
    /\ (call.op = "__init__" /\ GroupOfName = NoGroup) =>
         /\ call.ret.ok
         /\ var = call.ret.v
    /\ GroupOfName = NoGroup =>
         /\ var.constructed
         /\ var.g = NoGroup
         /\ var.Metric = Unset
         /\ var.ref_ds = Unset
         /\ var.metric_ds = Unset
         /\ var.other_ds = Unset
         /\ call.op = "is_CI" => call.ret = Ok(FALSE)
    /\ call.op = "ismetric" => call.ret = Ok(GroupOfName \in {0, 2, 3})

\* a coordinate variable constructed over a map that lacks the attribute
\* naming the reference, and its ismetric read
C24_Witness ==
    /\ ~HasRef
    /\ call.op = "ismetric" /\ call.ret = Ok(FALSE)
    /\ var.constructed /\ var.varname = <<"lon">> /\ var.Metric = Unset

\* ismetric read of a Common variable
C24_WitnessCommon ==
    /\ call.op = "ismetric" /\ var.g = 0 /\ call.ret = Ok(TRUE)

\* the strings the claim lists as accepted elements
ListedElements ==
    {"all", "short_name", "pretty_name", "short_version", "pretty_version"}

\* C25 as stated: for an id of the registry, dataset_metadata accepts as a
\* string element each of 'all', 'short_name', 'pretty_name',
\* 'short_version' and 'pretty_version' and raises ValueError for any other
\* string; without element it returns all name fields, with a list the
\* listed fields; every result's first component is the id passed in.
C25_ElementsAccepted ==
    (/\ HasRef
     /\ call.op = "dataset_metadata"
     /\ call.arg.id \in KnownIds) =>
      LET element == call.arg.element
          names == NamesAt(call.arg.id + ExpectedOffset)
      IN  /\ call.ret.ok => call.ret.v.id = call.arg.id
          /\ element.kind = "none" =>
                call.ret.ok /\ call.ret.v.meta = names
          /\ element.kind = "str" =>
                IF element.v \in ListedElements
                THEN /\ call.ret.ok
                     /\ element.v # "all" => call.ret.v.meta = names[element.v]
                     /\ element.v = "all" => call.ret.v.meta = names
                ELSE call.ret = Err("ValueError")
          /\ (element.kind = "list" /\ call.ret.ok) =>
                /\ DOMAIN call.ret.v.meta = Range(element.v)
                /\ \A e \in Range(element.v) : call.ret.v.meta[e] = names[e]

\* the element 'all' asked of the reference of a well-formed map: ValueError
C25_Witness ==
    /\ HasRef /\ RefIndex # 0
    /\ call.op = "dataset_metadata"
    /\ call.arg.id = RefIndex - ExpectedOffset
    /\ call.arg.element = ElemStr("all")
    /\ call.ret = Err("ValueError")

\* C25, what holds: a string element is accepted exactly when it is one of
\* the five name fields of _dc_names, 'pretty_title' included and 'all'
\* not; the rest as stated
C25_ElementsOfNames ==
    (/\ HasRef
     /\ call.op = "dataset_metadata"
     /\ call.arg.id \in KnownIds) =>
      LET element == call.arg.element
          names == NamesAt(call.arg.id + ExpectedOffset)
      IN  /\ call.ret.ok => call.ret.v.id = call.arg.id
          /\ element.kind = "none" =>
                call.ret.ok /\ call.ret.v.meta = names
          /\ element.kind = "str" =>
                IF element.v \in DOMAIN names
                THEN call.ret.ok /\ call.ret.v.meta = names[element.v]
                ELSE call.ret = Err("ValueError")
          /\ (element.kind = "list" /\ call.ret.ok) =>
                /\ DOMAIN call.ret.v.meta = Range(element.v)
                /\ \A e \in Range(element.v) : call.ret.v.meta[e] = names[e]

\* the other dataset by the rule that compares the resolved datasets
OtherByResolved(p) ==
    IF PairOf(p["sat_id1"]) = PairOf(p["mds_id"])
    THEN PairOf(p["sat_id0"]) ELSE PairOf(p["sat_id1"])

\* the other dataset by the rule that compares the raw ids
OtherByRawIds(p) ==
    IF p["sat_id1"] = p["mds_id"]
    THEN PairOf(p["sat_id0"]) ELSE PairOf(p["sat_id1"])

\* C26: for every get_varmeta of a TripleCollocation variable that
\* resolves, the other dataset returned is the one either rule gives: the
\* rule comparing resolved (id, names) pairs and the rule comparing raw
\* ids coincide, and slots of different ids are never re-resolved, also
\* when their datasets have the same name fields.
C26_RulesCoincide ==
    (call.op = "get_varmeta" /\ call.ret.ok /\ var.g = 3) =>
      /\ call.ret.v.dss = OtherByResolved(var.parts)
      /\ call.ret.v.dss = OtherByRawIds(var.parts)
      /\ var.parts["sat_id1"] # var.parts["mds_id"] =>
           call.ret.v.dss.id = var.parts["sat_id1"]

\* get_varmeta of a variable whose sat_id1 and mds_id are different ids of
\* twin datasets, sat_id0 being another dataset: no re-resolution
C26_Witness ==
    /\ call.op = "get_varmeta" /\ call.ret.ok /\ var.g = 3
    /\ var.parts["sat_id1"] # var.parts["mds_id"]
    /\ var.parts["sat_id0"] # var.parts["sat_id1"]
    /\ var.parts["sat_id0"] # var.parts["mds_id"]
    /\ call.ret.v.dss.meta = call.ret.v.mds.meta
    /\ call.ret.v.dss.id = var.parts["sat_id1"]

\* C27 as stated: however the comparison was initialised, init_union
\* completes and leaves the union flag True.
C27_InitUnionSetsFlag ==
    call.op = "init_union" => (call.ret.ok /\ cmp.union)

\* a comparison of one file initialised with get_intersection True: the
\* assertion of init_union fails and the flag stays False
C27_Witness ==
    /\ call.op = "init_union"
    /\ cargs.paths.kind = "str" /\ cargs.get_intersection
    /\ call.ret = Err("AssertionError")
    /\ ~cmp.union

\* C27, the part that holds: init_union of a comparison of several files
C27_InitUnionOfSeveral ==
    (call.op = "init_union" /\ ~SingleImage(cargs.paths)) =>
      (call.ret.ok /\ cmp.union)

\* C28 as stated: whenever a comparison of several validations has the
\* union flag True, perform_checks(union=True) raises ComparisonError.
C28_UnionRefusesPointByPoint ==
    (/\ call.op = "perform_checks" /\ call.arg.union
     /\ ~SingleImage(cmp.paths)
     /\ cmp.union) =>
      call.ret = Err("ComparisonError")

\* init_union after an initialisation on the intersection: the flag is
\* True, the extent of the intersection is still stored, and
\* perform_checks(union=True) returns
C28_Witness ==
    /\ cargs.paths.kind = "list" /\ Len(cargs.paths.v) = 2
    /\ cargs.extent = NoExtent /\ cargs.get_intersection
    /\ cmp.constructed /\ cmp.union /\ cmp.extent # NoExtent
    /\ call.op = "perform_checks"
    /\ call.arg = [overlapping |-> FALSE, union |-> TRUE, pairwise |-> FALSE]
    /\ call.ret.ok

\* C28, the part that holds: the check raises when the flag is True and no
\* extent is stored
C28_UnionWithoutExtentRefuses ==
    (/\ call.op = "perform_checks" /\ call.arg.union
     /\ ~SingleImage(cmp.paths)
     /\ cmp.union /\ cmp.extent = NoExtent) =>
      call.ret = Err("ComparisonError")

\* What the arguments say, read straight from them and from the files.
SeveralPaths == cargs.paths.kind = "list" /\ Len(cargs.paths.v) >= 2
Twice == \E i, j \in 1..Len(cargs.paths.v) :
           i # j /\ cargs.paths.v[i] = cargs.paths.v[j]
SameReference ==
    \A i, j \in 1..Len(cargs.paths.v) :
        Files[cargs.paths.v[i]].ref = Files[cargs.paths.v[j]].ref
\* no point lies in the extents of all the files
Apart ==
    \E i, j \in 1..Len(cargs.paths.v) :
        LET p == Files[cargs.paths.v[i]].extent
            q == Files[cargs.paths.v[j]].extent
        IN  p[1] > q[2] \/ p[3] > q[4]
\* the comparison holds one entry for each path, numbered in list order
OneEntryPerPath ==
    /\ ~cmp.comparison.single
    /\ Len(cmp.comparison.entries) = Len(cargs.paths.v)
    /\ \A i \in 1..Len(cargs.paths.v) :
         /\ cmp.comparison.entries[i].path = cargs.paths.v[i]
         /\ cmp.comparison.entries[i].id = i - 1
         /\ cmp.comparison.entries[i].img.name = cargs.paths.v[i]

\* C29 as stated: a comparison asked for over several paths fails with
\* ComparisonError when a path occurs twice; otherwise the mapping has one
\* entry for each path, numbered 0..n-1 in list order, and _check_ref
\* succeeds if and only if all files have the same reference, raising
\* ComparisonError if not.
C29_OneEntryPerPathOrError ==
    (call.op = "QA4SMComparison" /\ SeveralPaths) =>
      IF Twice \/ ~SameReference
      THEN call.ret = Err("ComparisonError")
      ELSE call.ret.ok /\ OneEntryPerPath

\* C29 amended: the initialisation fails with ComparisonError when a path
\* occurs twice and also when, no extent being given and the intersection
\* asked for, the extents of the files have no common point; otherwise the
\* mapping has one entry for each path, numbered 0..n-1 in list order, and
\* _check_ref succeeds if and only if all files have the same reference,
\* raising ComparisonError if not.
C29_OneEntryPerPathOrErrorOrApart ==
    (call.op = "QA4SMComparison" /\ SeveralPaths) =>
      IF \/ Twice
         \/ (cargs.extent = NoExtent /\ cargs.get_intersection /\ Apart)
         \/ ~SameReference
      THEN call.ret = Err("ComparisonError")
      ELSE /\ call.ret.ok
           /\ OneEntryPerPath
           /\ cmp.ref = Files[cargs.paths.v[1]].ref

\* three files with one reference initialised on a given extent
C29_Witness ==
    /\ call.op = "QA4SMComparison" /\ SeveralPaths
    /\ Len(cargs.paths.v) = 3 /\ cargs.extent # NoExtent
    /\ call.ret.ok /\ OneEntryPerPath
    /\ cmp.comparison.entries[3].id = 2

\* two files with one reference whose extents are apart, the intersection
\* asked for: ComparisonError without a path occurring twice
C29_WitnessApart ==
    /\ call.op = "QA4SMComparison" /\ SeveralPaths
    /\ ~Twice /\ SameReference /\ Apart
    /\ call.ret = Err("ComparisonError")

\* the type with its leading dot
Dotted(out_type) ==
    IF out_type # <<>> /\ out_type[1] = "." THEN out_type ELSE <<".">> \o out_type

\* the path with the suffix put after the name
Suffixed(path, suffix) ==
    PathOf(path.absolute,
           [path.parts EXCEPT ![Len(path.parts)] = NameOf(path) \o suffix])

\* the path lies in the directory
LiesIn(path, dir) ==
    /\ path.absolute = dir.absolute
    /\ Len(path.parts) > Len(dir.parts)
    /\ SubSeq(path.parts, 1, Len(dir.parts)) = dir.parts

\* C30 as stated: _standard_filename keeps the extension of a name that
\* has one; for a name without extension it returns the path in out_dir
\* with the type asked for as its extension, a dot being put before the
\* type that lacks one; the path returned lies in out_dir and has an
\* extension.
C30_FilenameHasExtension ==
    (call.op = "_standard_filename" /\ call.arg.out_type # <<>>) =>
      LET joined == JoinPath(plotter.out_dir, call.arg.out_name)
      IN  /\ call.ret.ok
          /\ Suffix(joined) # <<>> =>
               /\ call.ret.v = joined
               /\ Suffix(call.ret.v) = Suffix(call.arg.out_name)
          /\ Suffix(joined) = <<>> =>
               call.ret.v = Suffixed(joined, Dotted(call.arg.out_type))
          /\ LiesIn(call.ret.v, plotter.out_dir)
          /\ Suffix(call.ret.v) # <<>>

\* the name boxplot and the type png: the path returned has no extension
C30_Witness ==
    /\ call.op = "_standard_filename"
    /\ call.arg.out_name = PathOf(FALSE, <<<<"boxplot">>>>)
    /\ call.arg.out_type = <<"png">>
    /\ call.ret.ok
    /\ NameOf(call.ret.v) = <<"boxplot">>
    /\ Suffix(call.ret.v) = <<>>

\* C30, the part that holds: a relative name that has an extension keeps
\* it, and the path returned lies in out_dir
C30_ExtensionKept ==
    (/\ call.op = "_standard_filename"
     /\ ~call.arg.out_name.absolute
     /\ Suffix(call.arg.out_name) # <<>>) =>
      /\ call.ret.ok
      /\ call.ret.v = JoinPath(plotter.out_dir, call.arg.out_name)
      /\ Suffix(call.ret.v) = Suffix(call.arg.out_name)
      /\ LiesIn(call.ret.v, plotter.out_dir)
=============================================================================
